---- MODULE Spec2Model ----
(***************************************************************************)
(* Disaster data extraction and enrichment pipeline (glide/):              *)
(*   - IncidentSearchService   (find_incident.py)                          *)
(*   - WebDataExtractor        (data_extractors.py)                        *)
(*   - ModularGLIDELookup      (fl_glide_lookup.py)                        *)
(* Each component has its own specification over the shared variables:     *)
(*   SpecSearch, SpecSearchLive, SpecExtract, SpecPool, SpecBatch,         *)
(*   SpecSources, SpecCascade, SpecMerge, SpecClean, SpecReport,           *)
(*   SpecSeason, SpecTraining, SpecCompleteness.                           *)
(***************************************************************************)
EXTENDS Integers, Sequences, FiniteSets, TLC

VARIABLES
    \* ---- IncidentSearchService.search_all_pages / search_incident
    spc,            \* position inside search_all_pages
    glide_number,   \* argument: "" or an identifier
    max_results,    \* argument
    all_results,    \* local list of search_all_pages
    start,          \* local start index
    served,         \* number of items the API has handed out so far
    pages,          \* items of every page a search_incident call returned
    retry_total,    \* Retry.total of the request in flight
    replies,        \* replies the transport saw for the request in flight
    get_result,     \* what session.get produced
    lastSearch,     \* outcome of the last search_incident call
    sa_out,         \* outcome of search_all_pages
    \* ---- WebDataExtractor.extract_from_url / _fetch_with_retry
    epc,            \* position inside extract_from_url
    cache,          \* self.cache: url -> ExtractionReport
    requests,       \* number of session.get calls made so far, per url
    cur,            \* arguments of the call in progress, and what it found
    attempt,        \* loop variable of _fetch_with_retry
    lastFetch,      \* attempts, sleeps and result of the last _fetch_with_retry
    lastParse,      \* how the parsing/extraction steps of the last call ended
    ret,            \* what the last extract_from_url call gave its caller
    serial,         \* number of ExtractionReport objects created
    ncalls,         \* number of extract_from_url calls made
    \* ---- ModularGLIDELookup.fetch_and_analyze_floods
    bpc,            \* position inside fetch_and_analyze_floods
    lookup,         \* which optional collaborators __init__ managed to load
    catalog,        \* basic_collection.disasters
    bi,             \* index of the event being processed (1-based)
    enhanced,       \* the EnhancedDisasterInfo under construction
    si,             \* index of the source being extracted (1-based)
    disasters,      \* dataset.disasters
    features_matrix, \* dataset.features_matrix (indices into dataset.disasters)
    metadata,       \* dataset.metadata
    \* ---- WebDataExtractor._extract_with_patterns
    cpc,            \* "text": a clean text is at hand; "done": the cascade ran
    text,           \* the clean text, a sequence of words
    results,        \* the dict _extract_with_patterns returned
    \* ---- fetch_and_analyze_floods: the data of one event
    mpc,            \* position inside the loop body, for one event
    sources,        \* enhanced.internet_sources with the report of each
    msi,            \* index of the source being extracted (1-based)
    raw_web_data,   \* enhanced.raw_web_data: display_link -> report.data
    aux,            \* what the data enricher holds for the event
    disaster_data,  \* the dict disaster_data
    \* ---- WebDataExtractor._validate_and_clean_data
    kpc,            \* how many times the data went through the cleaning
    clean_in,       \* the dict handed to _validate_and_clean_data
    clean_out,      \* the dict it returned last
    \* ---- WebDataExtractor.extract_from_url: the data of one page
    rpc,            \* "page": fetched; "report": the report is built
    page,           \* the page: its domain, its table rows and its text
    report,         \* the ExtractionReport and the dicts it was built from
    record,         \* the event's features assembled from the report
    \* ---- ModularGLIDELookup._create_basic_features / _get_season
    dpc,            \* "date": an event date is given; "done": the features exist
    date,           \* basic_disaster.date: a date, or text that is no ISO date
    temporal,       \* event_date, season, month and year of the features
    \* ---- WebDataExtractor.extract_batch: the pool and its workers
    ppc,            \* position of the calling thread inside extract_batch
    urls,           \* argument: the list of urls
    max_workers,    \* argument
    tasks,          \* future_to_url: per submitted call, its url and progress
    last_future,    \* per url, the future as_completed yielded last (0: none)
    batch_results   \* the dict results of extract_batch

searchVars == <<spc, glide_number, max_results, all_results, start, served,
                pages, retry_total, replies, get_result, lastSearch, sa_out>>

extractVars == <<epc, cache, requests, cur, attempt, lastFetch, lastParse, ret,
                 serial, ncalls>>

batchVars == <<bpc, lookup, catalog, bi, enhanced, si, disasters, features_matrix,
               metadata>>

cascadeVars == <<cpc, text, results>>

mergeVars == <<mpc, sources, msi, raw_web_data, aux, disaster_data>>

cleanVars == <<kpc, clean_in, clean_out>>

reportVars == <<rpc, page, report, record>>
seasonVars == <<dpc, date, temporal>>

poolVars == <<ppc, urls, max_workers, tasks, last_future, batch_results>>

vars == <<searchVars, extractVars, batchVars, cascadeVars, mergeVars, cleanVars,
          reportVars,
          seasonVars,
          poolVars>>

\* ------------------------------------------------------------------ helpers
Min(a, b) == IF a < b THEN a ELSE b

RECURSIVE Flatten(_)
Flatten(ss) == IF ss = <<>> THEN <<>> ELSE Head(ss) \o Flatten(Tail(ss))

Last(xs) == xs[Len(xs)]

\* Python's xs[:n] for n >= 0
SliceTo(xs, n) == SubSeq(xs, 1, Min(n, Len(xs)))

\* ------------------------------------------------------------------ bounds
MaxMaxResults == 2      \* largest max_results tried
MaxItems == 2           \* largest number of items on one page
MaxCalls == 3           \* extract_from_url calls per behaviour
MaxEvents == 2          \* events in the catalog
MaxRecords == 3         \* records of a dataset handed to prepare_for_training
MaxReports == 2         \* sources of one event whose reports are merged
MaxPhrases == 2         \* phrases in the text of a page
MaxWords == 4           \* words in a clean text
MaxSources == 1         \* search results per event
MaxLinks == 2           \* search results of the event whose sources are followed
MaxUrls == 3            \* urls handed to extract_batch
MaxWorkers == 2         \* largest max_workers tried

\* ================================================================== SEARCH
\* Config.MAX_RETRIES
MAX_RETRIES_off == 1 + 1
MAX_RETRIES == 3

\* Retry(status_forcelist=...)
status_forcelist == {429, 500, 502, 503, 504}

\* A reply of the network to one HTTP request: a status code, or no response
\* at all (connection error / timeout), written ConnError.
ConnError == 0
NoStatus == 0 - 1
Replies == {ConnError, 200, 404, 503}

GlideNumbers == {"", "FL-2024-000123-BRA"}

\* queries.get('nextPage') of a parsed response:
\*   none      - key absent or empty list
\*   malformed - a value that next_query[0].get(...) cannot index
\*   nokey     - [{}], no startIndex
\*   index     - [{'startIndex': i}]
Tokens == { [t |-> "none", i |-> 0], [t |-> "malformed", i |-> 0],
            [t |-> "nokey", i |-> 0], [t |-> "index", i |-> 1],
            [t |-> "index", i |-> 11] }

\* Body of a 200 response: parsable JSON with n items and a paging token,
\* JSON whose fields from_dict cannot convert, or text that is not JSON.
Payloads == [json : {"ok"}, n : 0..MaxItems, next : Tokens]
            \cup [json : {"badformat", "unparsable"}, n : {0}, next : {[t |-> "none", i |-> 0]}]

\* Outcome of one search_incident call: the SearchResponse returned or the
\* exception raised (status/body: APIError.status_code / response_body, the
\* body of a response being named by its status), with the replies the
\* transport saw and the kind of payload parsed.
NoResult == [kind |-> "none", exc |-> "", status |-> NoStatus, body |-> NoStatus,
             items |-> <<>>, next |-> [t |-> "none", i |-> 0], replies |-> <<>>,
             json |-> ""]

Raise(e, st, bd, rs) == [NoResult EXCEPT !.kind = "raise", !.exc = e, !.status = st,
                                          !.body = bd, !.replies = rs]
Response(its, nx, rs) == [NoResult EXCEPT !.kind = "ok", !.items = its, !.next = nx,
                                           !.replies = rs]

\* class APIError(SearchError); class SearchError(Exception)
IsSearchError(r) == r.kind = "raise" /\ r.exc \in {"SearchError", "APIError"}

\* urllib3 Retry.increment / is_exhausted, as configured by _create_session
increment(total) == total - 1
is_exhausted(total) == total < 0
is_retry(reply) == reply = ConnError \/ reply \in status_forcelist

InitSearchVars ==
    /\ spc = "idle"
    /\ glide_number = ""
    /\ max_results = 0
    /\ all_results = <<>>
    /\ start = 1
    /\ served = 0
    /\ pages = <<>>
    /\ retry_total = MAX_RETRIES
    /\ replies = <<>>
    /\ get_result = [kind |-> "none", status |-> NoStatus]
    /\ lastSearch = NoResult
    /\ sa_out = [kind |-> "none", exc |-> "", items |-> <<>>]

\* search_all_pages(glide_number, max_results): entry
search_all_pages(g, m) ==
    /\ spc = "idle"
    /\ glide_number' = g
    /\ max_results' = m
    /\ all_results' = <<>>
    /\ start' = 1
    /\ spc' = "while"
    /\ UNCHANGED <<served, pages, retry_total, replies, get_result, lastSearch, sa_out>>
    /\ UNCHANGED <<extractVars, batchVars, cascadeVars, mergeVars, cleanVars, reportVars,
                   seasonVars, poolVars>>

\* return all_results[:max_results]
ReturnSlice_all(xs, n) == xs
ReturnSlice(xs, n) == SliceTo(xs, n)

\* while len(all_results) < max_results: ... search_incident(...) up to session.get
WhileTest ==
    /\ spc = "while"
    /\ IF Len(all_results) < max_results
       THEN IF glide_number = ""
            THEN \* raise ValueError("Glide Number cannot be empty"), outside the try
                 /\ lastSearch' = Raise("ValueError", NoStatus, NoStatus, <<>>)
                 /\ spc' = "body"
                 /\ UNCHANGED <<retry_total, replies, sa_out>>
            ELSE /\ retry_total' = MAX_RETRIES
                 /\ replies' = <<>>
                 /\ spc' = "get"
                 /\ UNCHANGED <<lastSearch, sa_out>>
       ELSE /\ sa_out' = [kind |-> "return", exc |-> "",
                          items |-> ReturnSlice(all_results, max_results)]
            /\ spc' = "done"
            /\ UNCHANGED <<retry_total, replies, lastSearch>>
    /\ UNCHANGED <<glide_number, max_results, all_results, start, served, pages, get_result>>
    /\ UNCHANGED <<extractVars, batchVars, cascadeVars, mergeVars, cleanVars, reportVars,
                   seasonVars, poolVars>>

\* One HTTP request of session.get under the mounted Retry strategy.
HttpAttempt(reply) ==
    /\ spc = "get"
    /\ replies' = Append(replies, reply)
    /\ IF is_retry(reply)
       THEN IF is_exhausted(increment(retry_total))
            THEN \* MaxRetryError -> requests.ConnectionError / RetryError
                 /\ get_result' = [kind |-> "RequestException", status |-> NoStatus]
                 /\ spc' = "got"
                 /\ UNCHANGED retry_total
            ELSE /\ retry_total' = increment(retry_total)
                 /\ UNCHANGED <<get_result, spc>>
       ELSE /\ get_result' = [kind |-> "response", status |-> reply]
            /\ spc' = "got"
            /\ UNCHANGED retry_total
    /\ UNCHANGED <<glide_number, max_results, all_results, start, served, pages,
                   lastSearch, sa_out>>
    /\ UNCHANGED <<extractVars, batchVars, cascadeVars, mergeVars, cleanVars, reportVars,
                   seasonVars, poolVars>>

\* The try body of search_incident after session.get: status check and parsing.
\* jsonIsRequestException: whether the installed requests raises a
\* JSONDecodeError that derives from RequestException.
TryBody(gr, payload, rs, first, jsonIsRequestException) ==
    IF gr.kind = "RequestException"
    THEN Raise("RequestException", NoStatus, NoStatus, rs)
    ELSE IF gr.status # 200
    THEN Raise("APIError", gr.status, gr.status, rs)
    ELSE IF payload.json = "unparsable"
    THEN [Raise(IF jsonIsRequestException THEN "RequestException" ELSE "JSONDecodeError",
                NoStatus, NoStatus, rs) EXCEPT !.json = payload.json]
    ELSE IF payload.json = "badformat"
    THEN [Raise("ValueError", NoStatus, NoStatus, rs) EXCEPT !.json = payload.json]
    ELSE [Response([k \in 1..payload.n |-> first + k], payload.next, rs)
            EXCEPT !.json = payload.json]

\* The except clauses of search_incident, in order.
ExceptClauses(r) ==
    IF r.kind # "raise" THEN r
    ELSE IF r.exc = "RequestException"
    THEN [r EXCEPT !.exc = "APIError", !.status = NoStatus, !.body = NoStatus]
    ELSE IF r.exc = "JSONDecodeError"
    THEN [r EXCEPT !.exc = "SearchError", !.status = NoStatus, !.body = NoStatus]
    ELSE \* except Exception: this also catches the APIError raised in the try body
         [r EXCEPT !.exc = "SearchError", !.status = NoStatus, !.body = NoStatus]

search_incident(gr, payload, rs, first, jsonIsRequestException) ==
    ExceptClauses(TryBody(gr, payload, rs, first, jsonIsRequestException))

SearchIncidentFinish(payload, jsonIsRequestException) ==
    /\ spc = "got"
    /\ lastSearch' = search_incident(get_result, payload, replies, served,
                                     jsonIsRequestException)
    /\ served' = served + Len(lastSearch'.items)
    /\ pages' = IF lastSearch'.kind = "ok" THEN Append(pages, lastSearch'.items) ELSE pages
    /\ spc' = "body"
    /\ UNCHANGED <<glide_number, max_results, all_results, start, retry_total, replies,
                   get_result, sa_out>>
    /\ UNCHANGED <<extractVars, batchVars, cascadeVars, mergeVars, cleanVars, reportVars,
                   seasonVars, poolVars>>

\* except SearchError: warning; break  -> return all_results[:max_results]
OnSearchError_raise(xs, n, r) == [kind |-> "raise", exc |-> r.exc, items |-> <<>>]
OnSearchError(xs, n, r) == [kind |-> "return", exc |-> "", items |-> ReturnSlice(xs, n)]

\* all_results.extend(response.items)
Extend_none(xs, its) == xs
Extend(xs, its) == xs \o its

\* Body of the while loop once search_incident has returned or raised.
LoopBody ==
    /\ spc = "body"
    /\ IF lastSearch.kind = "raise"
       THEN /\ sa_out' = IF IsSearchError(lastSearch)
                         THEN OnSearchError(all_results, max_results, lastSearch)
                         ELSE [kind |-> "raise", exc |-> lastSearch.exc, items |-> <<>>]
            /\ spc' = "done"
            /\ UNCHANGED <<all_results, start>>
       ELSE IF lastSearch.items = <<>>
       THEN /\ sa_out' = [kind |-> "return", exc |-> "",
                          items |-> ReturnSlice(all_results, max_results)]
            /\ spc' = "done"
            /\ UNCHANGED <<all_results, start>>
       ELSE /\ all_results' = Extend(all_results, lastSearch.items)
            /\ IF lastSearch.next.t = "none"
               THEN /\ sa_out' = [kind |-> "return", exc |-> "",
                                  items |-> ReturnSlice(all_results', max_results)]
                    /\ spc' = "done"
                    /\ UNCHANGED start
               ELSE IF lastSearch.next.t = "malformed"
               THEN \* next_query[0].get(...) raises; not a SearchError
                    /\ sa_out' = [kind |-> "raise", exc |-> "TypeError", items |-> <<>>]
                    /\ spc' = "done"
                    /\ UNCHANGED start
               ELSE /\ start' = IF lastSearch.next.t = "index"
                                THEN lastSearch.next.i ELSE start + 10
                    /\ spc' = "while"
                    /\ UNCHANGED sa_out
    /\ UNCHANGED <<glide_number, max_results, served, pages, retry_total, replies,
                   get_result, lastSearch>>
    /\ UNCHANGED <<extractVars, batchVars, cascadeVars, mergeVars, cleanVars, reportVars,
                   seasonVars, poolVars>>

NextSearch ==
    \/ \E g \in GlideNumbers, m \in 0..MaxMaxResults : search_all_pages(g, m)
    \/ WhileTest
    \/ \E reply \in Replies : HttpAttempt(reply)
    \/ \E payload \in Payloads, b \in BOOLEAN : SearchIncidentFinish(payload, b)
    \/ LoopBody

\* ================================================================= EXTRACT
\* WebDataExtractor(max_retries=3)
max_retries == 3

Urls == {"https://reliefweb.int/r1", "https://example.org/p2"}

\* How one attempt of _fetch_with_retry ends:
\*   ok         - 2xx response with text
\*   empty      - 2xx response whose text is ""
\*   timeout    - requests.exceptions.Timeout
\*   connection - requests.exceptions.ConnectionError
\*   http4xx    - raise_for_status() raises HTTPError for a 404
\*   other      - an exception that is not a RequestException
AttemptOutcomes == {"ok", "empty", "timeout", "connection", "http4xx", "other"}

\* except requests.exceptions.Timeout / except requests.exceptions.RequestException
IsTimeout(o) == o = "timeout"
IsRequestException(o) == o \in {"timeout", "connection", "http4xx"}

\* ExtractionReport(url, success, data, errors, ...); serial names the object.
NoReport == [url |-> "", success |-> FALSE, errors |-> <<>>, serial |-> 0]
NoFetch == [outcomes |-> <<>>, sleeps |-> <<>>, result |-> "none"]
NoReturn == [kind |-> "none", exc |-> "", report |-> NoReport, hit |-> FALSE]

\* report = ExtractionReport(url=url, success=False)
NewReport(url, n) == [url |-> url, success |-> FALSE, errors |-> <<>>, serial |-> n]

InitExtractVars ==
    /\ epc = "idle"
    /\ cache = [u \in Urls |-> NoReport]
    /\ requests = [u \in Urls |-> 0]
    /\ cur = [url |-> "", force |-> FALSE, before |-> 0, req0 |-> 0]
    /\ attempt = 0
    /\ lastFetch = NoFetch
    /\ lastParse = "none"
    /\ ret = NoReturn
    /\ serial = 0
    /\ ncalls = 0

\* if not force_refresh and url in self.cache
CacheHit(c, url, force) == ~force /\ c[url] # NoReport

\* extract_from_url(url, force_refresh): entry, cache lookup
extract_from_url(url, force) ==
    /\ epc = "idle"
    /\ ncalls < MaxCalls
    /\ ncalls' = ncalls + 1
    /\ serial' = serial + 1
    /\ cur' = [url |-> url, force |-> force, before |-> cache[url].serial,
               req0 |-> requests[url]]
    /\ IF CacheHit(cache, url, force)
       THEN /\ ret' = [kind |-> "report", exc |-> "", report |-> cache[url], hit |-> TRUE]
            /\ epc' = "idle"
            /\ UNCHANGED <<attempt, lastFetch>>
       ELSE /\ ret' = NoReturn
            /\ attempt' = 0
            /\ lastFetch' = NoFetch
            /\ epc' = "fetch"
    /\ lastParse' = "none"
    /\ UNCHANGED <<cache, requests>>
    /\ UNCHANGED <<searchVars, batchVars, cascadeVars, mergeVars, cleanVars, reportVars,
                   seasonVars, poolVars>>

\* if attempt < self.max_retries - 1
ShouldSleep_always(a) == TRUE
ShouldSleep(a) == a < max_retries - 1

\* time.sleep(2 ** attempt)
BackoffDelay(a) == 2 ^ a

\* One iteration of "for attempt in range(self.max_retries)".
FetchAttempt(o) ==
    /\ epc = "fetch"
    /\ attempt < max_retries
    /\ requests' = [requests EXCEPT ![cur.url] = @ + 1]
    /\ LET outs == Append(lastFetch.outcomes, o) IN
       IF o \in {"ok", "empty"}
       THEN \* return response.text
            /\ lastFetch' = [lastFetch EXCEPT !.outcomes = outs,
                                !.result = IF o = "ok" THEN "content" ELSE "empty"]
            /\ epc' = "fetched"
            /\ UNCHANGED attempt
       ELSE IF IsTimeout(o) \/ IsRequestException(o)
       THEN LET sl == IF ShouldSleep(attempt)
                      THEN Append(lastFetch.sleeps, BackoffDelay(attempt))
                      ELSE lastFetch.sleeps
            IN  /\ attempt' = attempt + 1
                /\ IF attempt + 1 < max_retries
                   THEN /\ lastFetch' = [lastFetch EXCEPT !.outcomes = outs, !.sleeps = sl]
                        /\ UNCHANGED epc
                   ELSE \* the loop ends: return None
                        /\ lastFetch' = [outcomes |-> outs, sleeps |-> sl, result |-> "None"]
                        /\ epc' = "fetched"
       ELSE \* not caught in _fetch_with_retry
            /\ lastFetch' = [lastFetch EXCEPT !.outcomes = outs, !.result = "raise"]
            /\ epc' = "fetched"
            /\ UNCHANGED attempt
    /\ UNCHANGED <<cache, cur, lastParse, ret, serial, ncalls>>
    /\ UNCHANGED <<searchVars, batchVars, cascadeVars, mergeVars, cleanVars, reportVars,
                   seasonVars, poolVars>>

\* if not html_content: report.errors.append(...); return report
FetchFailedReport(r) == [r EXCEPT !.errors = Append(@, "Falha ao buscar conteudo da URL")]

\* except Exception as e: report.errors.append(...); then return report
OnExtractException_raise(r) == [kind |-> "raise", exc |-> "Exception", report |-> NoReport,
                                hit |-> FALSE]
OnExtractException(r) ==
    [kind |-> "report", exc |-> "",
     report |-> [r EXCEPT !.errors = Append(@, "Erro de extracao")], hit |-> FALSE]

\* report.success = True
SuccessReport_unset(r) == r
SuccessReport(r) == [r EXCEPT !.success = TRUE]

\* self.cache[url] = report
CacheStore_skip(c, url, r) == c
CacheStore(c, url, r) == [c EXCEPT ![url] = r]

\* extract_from_url after _fetch_with_retry: parsing, strategies, scoring,
\* validation and caching; po tells whether one of these steps throws.
AfterFetch(po) ==
    /\ epc = "fetched"
    /\ LET r == NewReport(cur.url, serial) IN
       IF lastFetch.result = "raise"
       THEN /\ ret' = OnExtractException(r)
            /\ lastParse' = "none"
            /\ UNCHANGED cache
       ELSE IF lastFetch.result # "content"
       THEN /\ ret' = [kind |-> "report", exc |-> "", report |-> FetchFailedReport(r),
                       hit |-> FALSE]
            /\ lastParse' = "none"
            /\ UNCHANGED cache
       ELSE IF po = "exc"
       THEN /\ ret' = OnExtractException(r)
            /\ lastParse' = "exc"
            /\ UNCHANGED cache
       ELSE /\ ret' = [kind |-> "report", exc |-> "", report |-> SuccessReport(r),
                       hit |-> FALSE]
            /\ lastParse' = "ok"
            /\ cache' = CacheStore(cache, cur.url, SuccessReport(r))
    /\ epc' = "idle"
    /\ UNCHANGED <<requests, cur, attempt, lastFetch, serial, ncalls>>
    /\ UNCHANGED <<searchVars, batchVars, cascadeVars, mergeVars, cleanVars, reportVars,
                   seasonVars, poolVars>>

NextExtract ==
    \/ \E u \in Urls, f \in BOOLEAN : extract_from_url(u, f)
    \/ \E o \in AttemptOutcomes : FetchAttempt(o)
    \/ \E po \in {"ok", "exc"} : AfterFetch(po)


\* =================================================================== BATCH
\* DisasterFeatures: the attributes of the dataclass.  A DisasterFeatures
\* object is kept as the set of its attributes that are not None.
RequiredAttrs == {"glide", "disaster_type", "event_date", "season", "month", "year",
                  "location"}

OptionalAttrs == {"days_since_last_event", "latitude", "longitude", "region", "state",
                  "precipitation_mm", "precipitation_7d_mm", "precipitation_30d_mm",
                  "temperature_c", "temperature_max_c", "temperature_min_c",
                  "humidity_percent", "wind_speed_kmh", "wind_max_kmh",
                  "atmospheric_pressure_hpa", "affected_population", "deaths", "injured",
                  "displaced", "economic_loss_usd", "previous_events_30d",
                  "previous_events_90d", "urbanization_index", "vulnerability_index",
                  "human_development_index", "gdp_per_capita_brl", "population",
                  "elevation", "enso_phase", "days_in_year", "week_of_year", "is_weekend",
                  "weather_station_distance_km", "weather_station_name",
                  "news_sentiment_score", "social_media_mentions",
                  "emergency_response_time_hours"}

\* if field_name not in ['extraction_timestamp', 'data_quality_score']
Bookkeeping == {"extraction_timestamp", "data_quality_score"}

FeatureAttrs == RequiredAttrs \cup OptionalAttrs \cup Bookkeeping

CountedAttrs == FeatureAttrs \ Bookkeeping

TotalCounted == Cardinality(CountedAttrs)

\* _create_basic_features: the required attributes; the two bookkeeping
\* attributes take their defaults.
BasicAttrs == RequiredAttrs \cup Bookkeeping

\* _create_features_from_dict: the attributes it passes to the constructor.
ModuleAttrs == BasicAttrs \cup
    {"latitude", "longitude", "precipitation_mm", "temperature_c", "humidity_percent",
     "wind_speed_kmh", "affected_population", "deaths", "injured", "displaced",
     "economic_loss_usd", "news_sentiment_score"}

\* data_completeness is a float in [0, 1]; it is kept as the integer
\* CompletenessScale * data_completeness, exact for every k / TotalCounted
\* and for the threshold 0.6.
CompletenessScale == 10 * TotalCounted

\* 'min_completeness_threshold': 0.6
Threshold == (6 * CompletenessScale) \div 10

\* for source in enhanced.internet_sources[:3]
ExtractLimit == 3

\* An entry of extraction_errors: its message and the source whose link it
\* names (0: the entry names no source).
ErrorEntry(msg, src) == [msg |-> msg, src |-> src]

NoEnhanced == [id |-> 0, glide |-> "", nsources |-> 0, web |-> 0, errors |-> <<>>,
               features |-> "none", nonnull |-> {}, completeness |-> 0, fault |-> FALSE]

\* MLReadyDataset.metadata before prepare_for_training ran
NoMetadata == [total_samples |-> 0, min_completeness_threshold |-> 0]

\* EnhancedDisasterInfo(glide=..., name=..., ...); fault notes that a step of
\* this event threw.
NewEnhanced(ev) == [NoEnhanced EXCEPT !.id = ev.id, !.glide = ev.glide]

Catalogs == UNION { [1..n -> {"", "FL-2024-000123-BRA"}] : n \in 0..MaxEvents }

InitBatchVars ==
    /\ bpc = "loop"
    /\ lookup \in [web_extractor : BOOLEAN, data_enricher : BOOLEAN,
                   analysis_module : BOOLEAN]
    /\ \E c \in Catalogs : catalog = [i \in 1..Len(c) |-> [id |-> i, glide |-> c[i]]]
    /\ bi = 1
    /\ enhanced = NoEnhanced
    /\ si = 1
    /\ disasters = <<>>
    /\ features_matrix = <<>>
    /\ metadata = NoMetadata

IdleBatchVars ==
    /\ bpc = "off"
    /\ lookup = [web_extractor |-> FALSE, data_enricher |-> FALSE,
                 analysis_module |-> FALSE]
    /\ catalog = <<>>
    /\ bi = 1
    /\ enhanced = NoEnhanced
    /\ si = 1
    /\ disasters = <<>>
    /\ features_matrix = <<>>
    /\ metadata = NoMetadata

\* for i, basic_disaster in enumerate(...): enhanced = EnhancedDisasterInfo(...)
BeginEvent ==
    /\ bpc = "loop"
    /\ bi <= Len(catalog)
    /\ enhanced' = NewEnhanced(catalog[bi])
    /\ bpc' = "search"
    /\ UNCHANGED <<lookup, catalog, bi, si, disasters, features_matrix, metadata>>
    /\ UNCHANGED <<searchVars, extractVars, cascadeVars, mergeVars, cleanVars, reportVars,
                   seasonVars, poolVars>>

\* except Exception as e: enhanced.extraction_errors.append(str(e));
\*                        dataset.disasters.append(enhanced)
OnEventException_drop(ds, e) == ds
OnEventException(ds, e) ==
    Append(ds, [e EXCEPT !.errors = Append(@, ErrorEntry("Erro na analise", 0)),
                         !.fault = TRUE])

\* The outer except clause, then the next iteration of the for loop.
EventFailed ==
    /\ disasters' = OnEventException(disasters, enhanced)
    /\ bi' = bi + 1
    /\ bpc' = "loop"
    /\ enhanced' = NoEnhanced
    /\ UNCHANGED <<lookup, catalog, si, features_matrix, metadata>>

\* if basic_disaster.glide: search_incident(...); internet_sources = items[:10]
SearchSources(o, n) ==
    /\ bpc = "search"
    /\ IF enhanced.glide # "" /\ o = "raise"
       THEN EventFailed
       ELSE /\ enhanced' = [enhanced EXCEPT
                               !.nsources = IF enhanced.glide # "" THEN Min(n, 10) ELSE 0]
            /\ si' = 1
            /\ bpc' = IF lookup.web_extractor /\ enhanced'.nsources > 0
                      THEN "extract" ELSE "enrich"
            /\ UNCHANGED <<lookup, catalog, bi, disasters, features_matrix, metadata>>
    /\ UNCHANGED <<searchVars, extractVars, cascadeVars, mergeVars, cleanVars, reportVars,
                   seasonVars, poolVars>>

\* One iteration of "for source in enhanced.internet_sources[:3]".
\*   success   - report.success: raw_web_data[source.display_link] = report.data
\*   failed    - not report.success: "Falha ao extrair ..." is appended
\*   exception - the inner except: "Erro ao extrair ..." is appended
OnSourceFailed_silent(e, src) == e
OnSourceFailed(e, src) ==
    [e EXCEPT !.errors = Append(@, ErrorEntry("Falha ao extrair", src))]

OnSourceException(e, src) ==
    [e EXCEPT !.errors = Append(@, ErrorEntry("Erro ao extrair", src)), !.fault = TRUE]

ExtractSource(o) ==
    /\ bpc = "extract"
    /\ enhanced' =
          IF o = "success" THEN [enhanced EXCEPT !.web = @ + 1]
          ELSE IF o = "failed" THEN OnSourceFailed(enhanced, si)
          ELSE OnSourceException(enhanced, si)
    /\ IF si < Min(enhanced.nsources, ExtractLimit)
       THEN si' = si + 1 /\ UNCHANGED bpc
       ELSE bpc' = "enrich" /\ UNCHANGED si
    /\ UNCHANGED <<lookup, catalog, bi, disasters, features_matrix, metadata>>
    /\ UNCHANGED <<searchVars, extractVars, cascadeVars, mergeVars, cleanVars, reportVars,
                   seasonVars, poolVars>>

\* if self.data_enricher: try: enrich_disaster_data(...) except: append error
Enrich(o) ==
    /\ bpc = "enrich"
    /\ enhanced' =
          IF lookup.data_enricher /\ o = "raise"
          THEN [enhanced EXCEPT !.errors = Append(@, ErrorEntry("Erro no enriquecimento", 0)),
                                !.fault = TRUE]
          ELSE enhanced
    /\ bpc' = "features"
    /\ UNCHANGED <<lookup, catalog, bi, si, disasters, features_matrix, metadata>>
    /\ UNCHANGED <<searchVars, extractVars, cascadeVars, mergeVars, cleanVars, reportVars,
                   seasonVars, poolVars>>

\* Sets of non-None attributes the feature step can produce: with a module,
\* between the required ones and all that _create_features_from_dict passes;
\* without one, the basic features, to which the enriched data can add any
\* attribute (setattr).
FilledChoices_ungated(lk) ==
    IF lk.analysis_module THEN {BasicAttrs, ModuleAttrs} ELSE {BasicAttrs, FeatureAttrs}
FilledChoices(lk) ==
    IF lk.analysis_module THEN {BasicAttrs, ModuleAttrs}
    ELSE IF lk.data_enricher THEN {BasicAttrs, FeatureAttrs}
    ELSE {BasicAttrs}

\* calculate_completeness: filled_fields / total_fields over the attributes
\* other than the two bookkeeping ones; 0.0 without features.
calculate_completeness_all(e) ==
    IF e.features = "none" THEN 0
    ELSE (CompletenessScale * Cardinality(e.nonnull)) \div Cardinality(FeatureAttrs)
calculate_completeness(e) ==
    IF e.features = "none" THEN 0
    ELSE LET total_fields == Cardinality(FeatureAttrs \ Bookkeeping)
             filled_fields == Cardinality(e.nonnull \ Bookkeeping)
         IN  IF total_fields > 0 THEN (CompletenessScale * filled_fields) \div total_fields
             ELSE 0

\* Feature assembly, calculate_completeness and dataset.disasters.append.
AssembleFeatures(o, k) ==
    /\ bpc = "features"
    /\ IF o = "raise"
       THEN EventFailed
       ELSE LET e1 == [enhanced EXCEPT
                          !.features = IF lookup.analysis_module THEN "module" ELSE "basic",
                          !.nonnull = k]
                e2 == [e1 EXCEPT !.completeness = calculate_completeness(e1)]
            IN  /\ disasters' = Append(disasters, e2)
                /\ bi' = bi + 1
                /\ bpc' = "loop"
                /\ enhanced' = NoEnhanced
                /\ UNCHANGED <<lookup, catalog, si, features_matrix, metadata>>
    /\ UNCHANGED <<searchVars, extractVars, cascadeVars, mergeVars, cleanVars, reportVars,
                   seasonVars, poolVars>>

\* disaster.features and disaster.data_completeness > 0.6
Trainable_geq(d) == d.features # "none" /\ d.completeness >= Threshold
Trainable(d) == d.features # "none" /\ d.completeness > Threshold

RECURSIVE SelectIdx(_, _)
SelectIdx(ds, i) ==
    IF i > Len(ds) THEN <<>>
    ELSE (IF Trainable(ds[i]) THEN <<i>> ELSE <<>>) \o SelectIdx(ds, i + 1)

\* dataset.prepare_for_training(); return dataset
prepare_for_training ==
    /\ bpc = "loop"
    /\ bi > Len(catalog)
    /\ features_matrix' = SelectIdx(disasters, 1)
    /\ metadata' = [total_samples |-> Len(features_matrix'),
                    min_completeness_threshold |-> Threshold]
    /\ bpc' = "done"
    /\ UNCHANGED <<lookup, catalog, bi, enhanced, si, disasters>>
    /\ UNCHANGED <<searchVars, extractVars, cascadeVars, mergeVars, cleanVars, reportVars,
                   seasonVars, poolVars>>

\* enhanced.calculate_completeness() on an event whose features are in place
CalculateCompleteness ==
    /\ bpc = "assembled"
    /\ enhanced' = [enhanced EXCEPT !.completeness = calculate_completeness(enhanced)]
    /\ bpc' = "measured"
    /\ UNCHANGED <<lookup, catalog, bi, si, disasters, features_matrix, metadata>>
    /\ UNCHANGED <<searchVars, extractVars, cascadeVars, mergeVars, cleanVars, reportVars,
                   seasonVars, poolVars>>

\* Attributes beyond the required ones that are set or left None in the
\* DisasterFeatures objects calculate_completeness is tried on.
AttrPool == {"latitude", "precipitation_mm", "affected_population", "deaths",
             "news_sentiment_score", "data_quality_score", "extraction_timestamp"}

FeatureChoices ==
    {RequiredAttrs \cup S : S \in SUBSET AttrPool} \cup {FeatureAttrs, CountedAttrs, {}}

InitCompletenessVars ==
    /\ bpc = "assembled"
    /\ lookup = [web_extractor |-> FALSE, data_enricher |-> FALSE,
                 analysis_module |-> FALSE]
    /\ catalog = <<>>
    /\ bi = 1
    /\ \/ enhanced = NoEnhanced
       \/ \E S \in FeatureChoices :
             enhanced = [NoEnhanced EXCEPT !.features = "module", !.nonnull = S]
    /\ si = 1
    /\ disasters = <<>>
    /\ features_matrix = <<>>
    /\ metadata = NoMetadata

\* Values of data_completeness around the threshold: 0, 0.59.., 0.6, 0.61.., 1
CompletenessLevels == {0, Threshold - 4, Threshold, Threshold + 5, CompletenessScale}

DatasetRecords ==
    {NoEnhanced} \cup
    {[NoEnhanced EXCEPT !.features = "basic", !.nonnull = BasicAttrs, !.completeness = c] :
        c \in CompletenessLevels}

\* An MLReadyDataset whose records are in place and that was not prepared yet.
InitTrainingVars ==
    /\ bpc = "loop"
    /\ lookup = [web_extractor |-> FALSE, data_enricher |-> FALSE,
                 analysis_module |-> FALSE]
    /\ catalog = <<>>
    /\ bi = 1
    /\ enhanced = NoEnhanced
    /\ si = 1
    /\ \E n \in 0..MaxRecords : \E rs \in [1..n -> DatasetRecords] :
          disasters = [i \in 1..n |-> [rs[i] EXCEPT !.id = i]]
    /\ features_matrix = <<>>
    /\ metadata = NoMetadata

\* In a run over a whole catalog an event has no source or MaxSources of
\* them; NextSources follows every number of sources of one event.
NextBatch ==
    \/ BeginEvent
    \/ \E o \in {"ok", "raise"}, n \in {0, MaxSources} : SearchSources(o, n)
    \/ \E o \in {"success", "failed", "exception"} : ExtractSource(o)
    \/ \E o \in {"ok", "raise"} : Enrich(o)
    \/ \E o \in {"ok", "raise"}, k \in FilledChoices(lookup) : AssembleFeatures(o, k)
    \/ prepare_for_training

\* A run over one event that has an identifier, with a web extractor.
InitSourcesVars ==
    /\ bpc = "loop"
    /\ lookup \in [web_extractor : {TRUE}, data_enricher : BOOLEAN,
                   analysis_module : BOOLEAN]
    /\ catalog = <<[id |-> 1, glide |-> "FL-2024-000123-BRA"]>>
    /\ bi = 1
    /\ enhanced = NoEnhanced
    /\ si = 1
    /\ disasters = <<>>
    /\ features_matrix = <<>>
    /\ metadata = NoMetadata

NextSources ==
    \/ BeginEvent
    \/ \E o \in {"ok", "raise"}, n \in 0..MaxLinks : SearchSources(o, n)
    \/ \E o \in {"success", "failed", "exception"} : ExtractSource(o)
    \/ \E o \in {"ok", "raise"} : Enrich(o)
    \/ \E o \in {"ok", "raise"}, k \in FilledChoices(lookup) : AssembleFeatures(o, k)
    \/ prepare_for_training


\* ================================================================= CASCADE
\* The clean text is a sequence of words: a keyword (lower-cased and without
\* accents, the patterns are compiled with re.I) or a number token, kept as
\* its characters.
W(str) == [k |-> "w", s |-> str, d |-> <<>>]
N(chars) == [k |-> "n", s |-> "", d |-> chars]

Digits == {"0", "1", "2", "3", "4", "5", "6", "7", "8", "9"}
Seps == {".", ","}

DigitVal(c) ==
    CASE c = "0" -> 0 [] c = "1" -> 1 [] c = "2" -> 2 [] c = "3" -> 3 [] c = "4" -> 4
      [] c = "5" -> 5 [] c = "6" -> 6 [] c = "7" -> 7 [] c = "8" -> 8 [] c = "9" -> 9

AllDigits(cs) == cs # <<>> /\ \A i \in 1..Len(cs) : cs[i] \in Digits

\* \d+
InNUMD(cs) == AllDigits(cs)

\* \d+(?:[.,]\d+)?
InNUMF(cs) ==
    \/ AllDigits(cs)
    \/ \E p \in 2..(Len(cs) - 1) :
          /\ cs[p] \in Seps
          /\ AllDigits(SubSeq(cs, 1, p - 1))
          /\ AllDigits(SubSeq(cs, p + 1, Len(cs)))

\* \d{1,3}(?:[.,]\d{3})*
InNUM3(cs) ==
    \E n \in 1..3 :
       /\ n <= Len(cs)
       /\ AllDigits(SubSeq(cs, 1, n))
       /\ (Len(cs) - n) % 4 = 0
       /\ \A b \in 0..(((Len(cs) - n) \div 4) - 1) :
             /\ cs[n + 4 * b + 1] \in Seps
             /\ AllDigits(SubSeq(cs, n + 4 * b + 2, n + 4 * b + 4))

\* \d+(?:\.\d+)?
InNUMP(cs) == InNUMF(cs) /\ \A i \in 1..Len(cs) : cs[i] # ","

InClass(c, cs) ==
    CASE c = "NUMD" -> InNUMD(cs) [] c = "NUMF" -> InNUMF(cs) [] c = "NUM3" -> InNUM3(cs)
      [] c = "NUMP" -> InNUMP(cs)

\* The characters of number token cs that a number element of class c takes:
\*   first - the element opens the pattern: the match may start inside the token
\*           (leftmost start) and runs to its end, a keyword follows;
\*   last  - the element closes the pattern: the longest prefix (greedy);
\*   mid   - keywords on both sides: the whole token.
\* <<>> when the element does not match.
NumCapture(c, cs, pos) ==
    IF pos = "first"
    THEN LET ps == {p \in 1..Len(cs) : InClass(c, SubSeq(cs, p, Len(cs)))} IN
         IF ps = {} THEN <<>>
         ELSE SubSeq(cs, CHOOSE p \in ps : \A q \in ps : p <= q, Len(cs))
    ELSE IF pos = "last"
    THEN LET qs == {q \in 1..Len(cs) : InClass(c, SubSeq(cs, 1, q))} IN
         IF qs = {} THEN <<>>
         ELSE SubSeq(cs, 1, CHOOSE q \in qs : \A r \in qs : r <= q)
    ELSE IF InClass(c, cs) THEN cs ELSE <<>>

\* Pattern elements: keyword alternatives, or a number class; opt marks an
\* optional element "(?:...)?", g the capturing group.
KW(ws) == [c |-> "KW", ws |-> ws, opt |-> FALSE, g |-> FALSE]
OptKW(ws) == [c |-> "KW", ws |-> ws, opt |-> TRUE, g |-> FALSE]
Grp(c) == [c |-> c, ws |-> {}, opt |-> FALSE, g |-> TRUE]
OptNum(c) == [c |-> c, ws |-> {}, opt |-> TRUE, g |-> FALSE]

Afetados == {"afetada", "afetadas", "afetado", "afetados", "affected"}
Milhoes == {"milhoe", "milhoes", "million"}
Bilhoes == {"bilhoe", "bilhoes", "billion"}
Prejuizos == {"prejuizo", "prejuizos", "prejuiza", "prejuizas"}
Mm == {"mm", "milimetro", "milimetros"}
Metros == {"metro", "metros", "meter", "meters", "m"}

CascadeFields == <<"affected", "deaths", "displaced", "precipitation", "economic_loss",
                   "water_level">>

\* _compile_patterns: per field, the patterns in priority order; a pattern is
\* a sequence of alternatives, an alternative a sequence of elements.
compile_patterns(field) ==
    CASE field = "affected" -> <<
           << <<Grp("NUM3"), KW({"pessoa", "pessoas", "people", "person", "persons"}),
                OptKW({"foram"}), KW(Afetados)>> >>,
           << <<KW({"afetou", "affected"}), Grp("NUM3"),
                KW({"pessoa", "pessoas", "people"})>> >>,
           << <<Grp("NUM3"), KW({"morador", "moradores", "resident", "residents"}),
                KW({"atingida", "atingidas", "atingido", "atingidos", "impacted"})>> >>,
           << <<Grp("NUM3"), KW({"familia", "familias", "families"}), KW(Afetados)>> >> >>
      [] field = "deaths" -> <<
           << <<Grp("NUMD"), KW({"morte", "mortes", "death", "deaths", "obito", "obitos",
                                 "fatalities", "morto", "mortos", "killed", "died"})>> >>,
           << <<KW({"morreram", "died", "killed"}), Grp("NUMD")>> >>,
           << <<Grp("NUMD"), KW({"vitima", "vitimas"}), KW({"fatais"})>>,
              <<Grp("NUMD"), KW({"fatal"}), KW({"victim", "victims"})>> >> >>
      [] field = "displaced" -> <<
           << <<Grp("NUM3"), KW({"desabrigada", "desabrigadas", "desabrigado",
                                 "desabrigados", "displaced", "homeless"})>> >>,
           << <<Grp("NUM3"), KW({"evacuada", "evacuadas", "evacuado", "evacuados",
                                 "evacuated"})>> >>,
           << <<Grp("NUM3"), KW({"desalojada", "desalojadas", "desalojado",
                                 "desalojados"})>>,
              <<Grp("NUM3"), KW({"left"}), KW({"homeless"})>> >> >>
      [] field = "precipitation" -> <<
           << <<Grp("NUMF"), KW(Mm \cup {"millimeter", "millimeters"}), OptKW({"de"}),
                KW({"chuva", "rain", "precipitacao"})>> >>,
           << <<KW({"chuva", "rain", "precipitacao"}), OptKW({"de"}), Grp("NUMF"),
                KW(Mm)>> >>,
           << <<Grp("NUMF"), KW(Mm), OptKW({"em"}), OptNum("NUMD"),
                KW({"hora", "horas", "hour", "hours", "dia", "dias", "day", "days"})>> >> >>
      [] field = "economic_loss" -> <<
           << <<KW(Prejuizos \cup {"loss", "damage", "dano", "danos"}), OptKW({"de"}),
                KW({"r$", "us$", "usd", "brl"}), Grp("NUMF"), KW(Milhoes \cup Bilhoes)>> >>,
           << <<KW({"r$", "us$", "usd"}), Grp("NUMF"),
                KW(Milhoes \cup Bilhoes \cup {"mi", "bi"}), OptKW({"em"}),
                KW(Prejuizos \cup {"perda", "perdas", "dano", "danos"})>> >> >>
      [] field = "water_level" -> <<
           << <<KW({"nivel", "level"}), OptKW({"da", "de", "do"}),
                KW({"agua", "water", "rio", "river"}),
                KW({"atingiu", "reached", "chegou"}), OptKW({"a"}), Grp("NUMF"),
                KW(Metros)>> >>,
           << <<Grp("NUMF"), KW(Metros), OptKW({"de"}),
                KW({"agua", "water", "inundacao", "flooding"})>> >> >>

NoMatch == [ok |-> FALSE, cap |-> <<>>, ws |-> {}]

\* Whether alternative alt, from its element j on, matches the text from word
\* i on; cap is group(1), ws the keywords inside group(0).
RECURSIVE MatchAt(_, _, _, _)
MatchAt(txt, i, alt, j) ==
    IF j > Len(alt) THEN [ok |-> TRUE, cap |-> <<>>, ws |-> {}]
    ELSE
      LET e == alt[j]
          pos == IF j = 1 THEN "first" ELSE IF j = Len(alt) THEN "last" ELSE "mid"
          here == IF i > Len(txt) THEN <<>>
                  ELSE IF e.c = "KW"
                  THEN (IF txt[i].k = "w" /\ txt[i].s \in e.ws THEN <<txt[i].s>> ELSE <<>>)
                  ELSE (IF txt[i].k = "n" THEN NumCapture(e.c, txt[i].d, pos) ELSE <<>>)
          rest == IF here = <<>> THEN NoMatch ELSE MatchAt(txt, i + 1, alt, j + 1)
      IN  IF rest.ok
          THEN [ok |-> TRUE,
                cap |-> IF e.g THEN here ELSE rest.cap,
                ws |-> IF e.c = "KW" THEN rest.ws \cup {here[1]} ELSE rest.ws]
          ELSE IF e.opt THEN MatchAt(txt, i, alt, j + 1)
          ELSE NoMatch

\* The first alternative of pattern pat that matches at word i.
RECURSIVE MatchAlts(_, _, _, _)
MatchAlts(txt, i, pat, a) ==
    IF a > Len(pat) THEN NoMatch
    ELSE LET m == MatchAt(txt, i, pat[a], 1) IN
         IF m.ok THEN m ELSE MatchAlts(txt, i, pat, a + 1)

\* pattern.search(text): the leftmost match.
RECURSIVE SearchFrom(_, _, _)
SearchFrom(pat, txt, i) ==
    IF i > Len(txt) THEN NoMatch
    ELSE LET m == MatchAlts(txt, i, pat, 1) IN
         IF m.ok THEN m ELSE SearchFrom(pat, txt, i + 1)

search(pat, txt) == SearchFrom(pat, txt, 1)

\* Values: Python ints, and floats kept as whole part w and thousandths m.
NoValue == [t |-> "none", w |-> 0, m |-> 0]
IntValue(n) == [t |-> "int", w |-> n, m |-> 0]
FloatValue(w, m) == [t |-> "float", w |-> w, m |-> m]

RECURSIVE ToInt(_)
ToInt(cs) == IF cs = <<>> THEN 0
             ELSE 10 * ToInt(SubSeq(cs, 1, Len(cs) - 1)) + DigitVal(cs[Len(cs)])

Strip(cs, drop) == SelectSeq(cs, LAMBDA c : c \notin drop)

\* float(number_str.replace(',', '.')) for a string of the shape \d+(?:[.,]\d+)?
ToFloat(cs) ==
    LET ps == {p \in 1..Len(cs) : cs[p] \in Seps} IN
    IF ps = {} THEN FloatValue(ToInt(cs), 0)
    ELSE LET p == CHOOSE q \in ps : TRUE
             frac == SubSeq(cs, p + 1, Len(cs))
             d(i) == IF i <= Len(frac) THEN DigitVal(frac[i]) ELSE 0
         IN  FloatValue(ToInt(SubSeq(cs, 1, p - 1)), 100 * d(1) + 10 * d(2) + d(3))

\* value *= n for a multiplier n that is a multiple of 1000
Times(v, n) == FloatValue(v.w * n + v.m * (n \div 1000), 0)

\* _process_match(match, field)
process_match(m, field) ==
    IF field \in {"affected", "deaths", "displaced"}
    THEN IntValue(ToInt(Strip(m.cap, Seps)))
    ELSE IF field \in {"precipitation", "water_level"}
    THEN ToFloat(m.cap)
    ELSE IF field = "economic_loss"
    THEN IF m.ws \cap Bilhoes # {}
         THEN Times(ToFloat(m.cap), 1000000000)
         ELSE IF m.ws \cap Milhoes # {}
         THEN Times(ToFloat(m.cap), 1000000)
         ELSE ToFloat(m.cap)
    ELSE NoValue

\* for pattern in patterns: match = pattern.search(text); if match: value = ...;
\*     if value is not None: results[field] = value; break
RECURSIVE TryPatterns(_, _, _)
TryPatterns_last(field, txt, k) ==
    LET pats == compile_patterns(field)
        hit == {j \in k..Len(pats) : search(pats[j], txt).ok}
    IN  IF hit = {} THEN NoValue
        ELSE process_match(search(pats[CHOOSE j \in hit : \A h \in hit : h <= j], txt),
                           field)
TryPatterns(field, txt, k) ==
    LET pats == compile_patterns(field) IN
    IF k > Len(pats) THEN NoValue
    ELSE LET m == search(pats[k], txt)
             value == IF m.ok THEN process_match(m, field) ELSE NoValue
         IN  IF value # NoValue THEN value ELSE TryPatterns(field, txt, k + 1)

\* _extract_with_patterns(text); a field without a result maps to NoValue
extract_with_patterns_dict(txt) ==
    [f \in {CascadeFields[i] : i \in 1..Len(CascadeFields)} |-> TryPatterns(f, txt, 1)]

Vocabulary == { N(<<"3">>), N(<<"7">>), N(<<"1", "2", ",", "5", "0", "0">>),
                W("people"), W("affected"), W("killed"), W("died"), W("mm"), W("rain") }

Texts == UNION { [1..n -> Vocabulary] : n \in 0..MaxWords }

NoResults == [f \in {CascadeFields[i] : i \in 1..Len(CascadeFields)} |-> NoValue]

InitCascadeVars ==
    /\ cpc = "text"
    /\ text \in Texts
    /\ results = NoResults

IdleCascadeVars ==
    /\ cpc = "off"
    /\ text = <<>>
    /\ results = NoResults

extract_with_patterns ==
    /\ cpc = "text"
    /\ results' = extract_with_patterns_dict(text)
    /\ cpc' = "done"
    /\ UNCHANGED text
    /\ UNCHANGED <<searchVars, extractVars, batchVars, mergeVars, cleanVars, reportVars,
                   seasonVars, poolVars>>

NextCascade == extract_with_patterns


\* =================================================================== MERGE
\* The data of one event: the reports of its sources, raw_web_data, and the
\* merge of lines 539-552.  A field map gives each field its value, Null for
\* None, or Absent when the key is missing.
Absent == 0 - 2
Null == 0 - 1

MergeFields == {"deaths", "affected_population"}

NoFields == [f \in MergeFields |-> Absent]

\* report.data of a source: cleaned data holds no None.
SourceData == [MergeFields -> {Absent, 5, 10}]

Hosts == {"reliefweb.int", "g1.globo.com"}

\* A search result (display_link) with what extract_from_url gives for it.
SourceReports == [display_link : Hosts, success : BOOLEAN, data : SourceData]

\* What the enricher holds for the event: a value, None, or nothing.
AuxData == [MergeFields -> {Absent, Null, 7}]

InitMergeVars ==
    /\ \E n \in 0..MaxReports : sources \in [1..n -> SourceReports]
    /\ mpc = IF sources = <<>> THEN "enrich" ELSE "extract"
    /\ msi = 1
    /\ raw_web_data = <<>>
    /\ aux \in AuxData
    /\ disaster_data = NoFields

IdleMergeVars ==
    /\ mpc = "off"
    /\ sources = <<>>
    /\ msi = 1
    /\ raw_web_data = <<>>
    /\ aux = NoFields
    /\ disaster_data = NoFields

\* d[k] = v on a dict kept as a sequence of <<key, value>> in insertion order:
\* an existing key keeps its place and takes the new value.
DictSet(d, k, v) ==
    IF \E i \in 1..Len(d) : d[i][1] = k
    THEN [i \in 1..Len(d) |-> IF d[i][1] = k THEN <<k, v>> ELSE d[i]]
    ELSE Append(d, <<k, v>>)

\* One iteration of "for source in enhanced.internet_sources[:3]":
\* if extraction_report.success: raw_web_data[source.display_link] = report.data
StoreReport ==
    /\ mpc = "extract"
    /\ msi <= Min(Len(sources), ExtractLimit)
    /\ raw_web_data' = IF sources[msi].success
                       THEN DictSet(raw_web_data, sources[msi].display_link,
                                    sources[msi].data)
                       ELSE raw_web_data
    /\ msi' = msi + 1
    /\ mpc' = IF msi + 1 <= Min(Len(sources), ExtractLimit) THEN "extract" ELSE "enrich"
    /\ UNCHANGED <<sources, aux, disaster_data>>
    /\ UNCHANGED <<searchVars, extractVars, batchVars, cascadeVars, cleanVars, reportVars,
                   seasonVars, poolVars>>

\* DataEnricher.enrich_disaster_data(disaster_data): the event's data with the
\* fields the auxiliary datasets hold for it.
enrich_disaster_data(dd, held) ==
    [f \in DOMAIN dd |-> IF held[f] # Absent THEN held[f] ELSE dd[f]]

\* for key, value in source_data.items():
\*     if key not in enriched_data or enriched_data[key] is None:
\*         enriched_data[key] = value
MergeInto_overwrite(enriched_data, source_data) ==
    [f \in DOMAIN enriched_data |->
        IF source_data[f] # Absent THEN source_data[f] ELSE enriched_data[f]]
MergeInto(enriched_data, source_data) ==
    [f \in DOMAIN enriched_data |->
        IF source_data[f] # Absent /\ (enriched_data[f] = Absent \/ enriched_data[f] = Null)
        THEN source_data[f]
        ELSE enriched_data[f]]

\* for source_data in enhanced.raw_web_data.values(): ...
RECURSIVE MergeSources(_, _, _)
MergeSources(enriched_data, rwd, i) ==
    IF i > Len(rwd) THEN enriched_data
    ELSE MergeSources(MergeInto(enriched_data, rwd[i][2]), rwd, i + 1)

\* if self.data_enricher: try: enriched_data = ...; merge; disaster_data =
\* enriched_data; except: the error is recorded and disaster_data stays.
EnrichData(o) ==
    /\ mpc = "enrich"
    /\ IF o = "raise"
       THEN mpc' = "unmerged" /\ UNCHANGED disaster_data
       ELSE /\ disaster_data' =
                 MergeSources(enrich_disaster_data(disaster_data, aux), raw_web_data, 1)
            /\ mpc' = "merged"
    /\ UNCHANGED <<sources, msi, raw_web_data, aux>>
    /\ UNCHANGED <<searchVars, extractVars, batchVars, cascadeVars, cleanVars, reportVars,
                   seasonVars, poolVars>>

NextMerge ==
    \/ StoreReport
    \/ \E o \in {"ok", "raise"} : EnrichData(o)


\* =================================================================== CLEAN
\* Values of a data dict: None, ints, floats (whole part w = floor and
\* thousandths m), strings and lists.  A string is kept as its runs of equal
\* characters, <<[c |-> "x", n |-> 5000]>> being "x" * 5000, so that the
\* length limit keeps its value; "tab" stands for a whitespace character
\* other than the space.
AbsentValue == [t |-> "absent", w |-> 0, m |-> 0]
StrValue(runs) == [t |-> "str", s |-> runs]
ListValue(items) == [t |-> "list", s |-> items]

Whitespace == {" ", "tab"}

Run(c, n) == [c |-> c, n |-> n]

\* The runs of a string, adjacent runs of one character joined.
RECURSIVE Canon(_)
Canon(rs) ==
    IF rs = <<>> THEN <<>>
    ELSE IF Head(rs).n = 0 THEN Canon(Tail(rs))
    ELSE LET rest == Canon(Tail(rs)) IN
         IF rest # <<>> /\ Head(rest).c = Head(rs).c
         THEN <<Run(Head(rs).c, Head(rs).n + Head(rest).n)>> \o Tail(rest)
         ELSE <<Head(rs)>> \o rest

RECURSIVE StrLen(_)
StrLen(rs) == IF rs = <<>> THEN 0 ELSE Head(rs).n + StrLen(Tail(rs))

\* value[:k]
RECURSIVE Take(_, _)
Take(rs, k) ==
    IF rs = <<>> \/ k <= 0 THEN <<>>
    ELSE IF Head(rs).n >= k THEN <<Run(Head(rs).c, k)>>
    ELSE <<Head(rs)>> \o Take(Tail(rs), k - Head(rs).n)

RECURSIVE LStrip(_)
LStrip(rs) == IF rs # <<>> /\ Head(rs).c \in Whitespace THEN LStrip(Tail(rs)) ELSE rs

RECURSIVE RStrip(_)
RStrip(rs) == IF rs # <<>> /\ rs[Len(rs)].c \in Whitespace
              THEN RStrip(SubSeq(rs, 1, Len(rs) - 1)) ELSE rs

\* value.strip()
Strip_str(rs) == RStrip(LStrip(rs))

\* re.sub(r'\s+', ' ', value)
RECURSIVE CollapseSpaces(_)
CollapseSpaces(rs) ==
    IF rs = <<>> THEN <<>>
    ELSE IF Head(rs).c \in Whitespace
    THEN <<Run(" ", 1)>> \o CollapseSpaces(LStrip(rs))
    ELSE <<Head(rs)>> \o CollapseSpaces(Tail(rs))

\* if len(value) > 5000: value = value[:5000] + '...'
MaxStrLen == 5000

Truncate_append(rs) ==
    IF StrLen(rs) > MaxStrLen THEN Canon(rs \o <<Run(".", 3)>>) ELSE rs
Truncate(rs) ==
    IF StrLen(rs) > MaxStrLen THEN Canon(Take(rs, MaxStrLen) \o <<Run(".", 3)>>) ELSE rs

CleanString(rs) == Truncate(CollapseSpaces(Strip_str(rs)))

\* round(value, 2), to the nearest hundredth; the floats tried are not
\* half-way between two hundredths.
Round2(v) ==
    LET h == (v.m + 5) \div 10 IN
    IF h = 100 THEN FloatValue(v.w + 1, 0) ELSE FloatValue(v.w, 10 * h)

\* Truth value of a list item, and whether str(item).strip() is non-empty.
Truthy(v) ==
    CASE v.t = "none" -> FALSE
      [] v.t = "int" -> v.w # 0
      [] v.t = "float" -> v.w # 0 \/ v.m # 0
      [] v.t = "str" -> v.s # <<>>
      [] v.t = "list" -> v.s # <<>>

NonBlank(v) == IF v.t = "str" THEN Strip_str(v.s) # <<>> ELSE TRUE

Unsigned_none == {}
Unsigned == {"latitude", "longitude"}

\* The value _validate_and_clean_data keeps for key; AbsentValue when the
\* entry is left out.
CleanValue_clamp(key, value) ==
    IF value.t \in {"absent", "none"} THEN AbsentValue
    ELSE IF value.t \in {"int", "float"} /\ value.w < 0 /\ key \notin Unsigned
    THEN [t |-> value.t, w |-> 0, m |-> 0]
    ELSE value
CleanValue(key, value) ==
    IF value.t \in {"absent", "none"} THEN AbsentValue
    ELSE IF value.t = "str"
    THEN IF Strip_str(value.s) = <<>> THEN AbsentValue ELSE StrValue(CleanString(value.s))
    ELSE IF value.t \in {"int", "float"}
    THEN IF value.w < 0 /\ key \notin Unsigned THEN AbsentValue
         ELSE IF value.t = "float" /\ key \notin Unsigned THEN Round2(value)
         ELSE value
    ELSE IF value.t = "list"
    THEN LET kept == SelectSeq(value.s, LAMBDA item : Truthy(item) /\ NonBlank(item)) IN
         IF kept = <<>> THEN AbsentValue ELSE ListValue(kept)
    ELSE value

\* _validate_and_clean_data(data)
validate_and_clean_data(data) == [key \in DOMAIN data |-> CleanValue(key, data[key])]

CleanKeys == {"latitude", "summary"}

CleanInputs ==
    { AbsentValue, NoValue, IntValue(0 - 3), IntValue(0), IntValue(7),
      FloatValue(0 - 18, 200), FloatValue(0 - 23, 449), FloatValue(1, 126),
      FloatValue(2, 996),
      StrValue(<<>>), StrValue(<<Run(" ", 2)>>),
      StrValue(<<Run("tab", 1), Run("x", 1), Run(" ", 2), Run("tab", 1), Run("x", 1),
                 Run(" ", 1)>>),
      StrValue(<<Run("x", MaxStrLen)>>), StrValue(<<Run("x", MaxStrLen + 1)>>),
      StrValue(<<Run("x", MaxStrLen - 1), Run(" ", 1), Run("x", 5)>>),
      StrValue(<<Run(" ", 1), Run("x", MaxStrLen), Run(" ", 1)>>),
      StrValue(<<Run("x", MaxStrLen - 2), Run(".", 7)>>),
      ListValue(<<>>), ListValue(<<StrValue(<<>>), NoValue, StrValue(<<Run(" ", 1)>>)>>),
      ListValue(<<StrValue(<<Run(" ", 1), Run("x", 1)>>), IntValue(0), NoValue,
                  IntValue(7)>>) }

InitCleanVars ==
    /\ kpc = 0
    /\ clean_in \in [CleanKeys -> CleanInputs]
    /\ clean_out = clean_in

IdleCleanVars ==
    /\ kpc = 0 - 1
    /\ clean_in = [key \in CleanKeys |-> AbsentValue]
    /\ clean_out = clean_in

\* data = self._validate_and_clean_data(data), applied to what the previous
\* cleaning returned
CleanAgain ==
    /\ kpc \in {0, 1}
    /\ clean_in' = clean_out
    /\ clean_out' = validate_and_clean_data(clean_out)
    /\ kpc' = kpc + 1
    /\ UNCHANGED <<searchVars, extractVars, batchVars, cascadeVars, mergeVars,
                   reportVars, seasonVars, poolVars>>


\* ================================================================== REPORT
\* extract_from_url past the fetch: the strategy of the page's domain, the
\* pattern cascade, the confidence scores and the cleaning, on the data of
\* one page.  A page has a domain, one table or none (whether its headers
\* name the impact, and its data rows: the words of the first cell and the
\* number token of the second, <<>> when that cell holds no digit) and the
\* text of its body.
ReportKeys == {"affected_population", "deaths", "displaced", "injured",
               "temperature_c", "wind_speed_kmh", "humidity_percent",
               "affected", "precipitation", "economic_loss", "water_level",
               "precipitation_mm", "economic_loss_usd"}

NoData == [key \in ReportKeys |-> AbsentValue]

\* key in data and data[key] is not None
Present(v) == v \notin {AbsentValue, NoValue}

Row(key, chars) == [key |-> key, value |-> chars]

\* The key a table row stores its number under: 'affected' in key, 'death'
\* in key or 'killed' in key, 'displaced' in key ('homeless' too for IFRC),
\* 'injured' in key, tested in the order of each strategy's elif chain.
RowField(key, ifrc) ==
    LET has(ws) == \E i \in 1..Len(key) : key[i] \in ws IN
    IF has({"affected"}) THEN "affected_population"
    ELSE IF has({"death", "deaths", "killed"}) THEN "deaths"
    ELSE IF ifrc
    THEN (IF has({"injured"}) THEN "injured"
          ELSE IF has({"displaced", "homeless"}) THEN "displaced" ELSE "none")
    ELSE (IF has({"displaced"}) THEN "displaced"
          ELSE IF has({"injured"}) THEN "injured" ELSE "none")

\* soup.get_text(): the words of the table, cell by cell, then the body.
RECURSIVE RowWords(_, _)
RowWords(rows, i) ==
    IF i > Len(rows) THEN <<>>
    ELSE [j \in 1..Len(rows[i].key) |-> W(rows[i].key[j])]
         \o <<IF rows[i].value = <<>> THEN W("n/a") ELSE N(rows[i].value)>>
         \o RowWords(rows, i + 1)

PageText(pg) ==
    IF pg.rows = <<>> THEN pg.body
    ELSE (IF pg.impact_headers THEN <<W("impact"), W("number")>>
          ELSE <<W("indicator"), W("value")>>)
         \o RowWords(pg.rows, 1) \o pg.body

\* _extract_reliefweb, the tables: a table counts when its headers name
\* 'affected', 'deaths' or 'impact'; a row with a number stores
\* int(number without separators); later rows overwrite earlier ones.
RECURSIVE TableRows(_, _, _, _)
TableRows(data, rows, i, ifrc) ==
    IF i > Len(rows) THEN data
    ELSE LET f == RowField(rows[i].key, ifrc) IN
         TableRows(IF rows[i].value # <<>> /\ f # "none"
                   THEN [data EXCEPT ![f] = IntValue(ToInt(Strip(rows[i].value, Seps)))]
                   ELSE data,
                   rows, i + 1, ifrc)

extract_reliefweb(pg) ==
    IF pg.impact_headers THEN TableRows(NoData, pg.rows, 1, FALSE) ELSE NoData

\* _extract_ifrc, the tables: every table counts; int(re.sub(r'[^\d]', '',
\* value)), a cell without digits is passed over.
extract_ifrc(pg) == TableRows(NoData, pg.rows, 1, TRUE)

\* temp_pattern, wind_pattern, humidity_pattern.  With re.I, [CF] takes the
\* first letter of any word that begins with c or f; of the words of the
\* pages tried these are the unit words.
TempUnits == {"°c", "°f", "c", "f"}
temp_pattern == << <<Grp("NUMP"), KW(TempUnits)>> >>
wind_pattern == << <<Grp("NUMP"), KW({"km/h", "kmh"})>>,
                   <<Grp("NUMP"), KW({"kilometer", "kilometers"}), KW({"per"}),
                     KW({"hour"})>> >>
humidity_pattern == << <<Grp("NUMP"), KW({"%"}), KW({"humidity", "umidade"})>> >>

\* Floats near the sanity bounds are compared and rounded in thousandths.
Thousandths(v) == v.w * 1000 + v.m
FromThousandths(n) == FloatValue(n \div 1000, n % 1000)

\* round(value, 1)
Round1(v) == FromThousandths(((Thousandths(v) + 50) \div 100) * 100)

\* (temp_value - 32) * 5/9, to the nearest thousandth
ToCelsius(v) == FromThousandths((2 * (Thousandths(v) - 32000) * 5 + 9) \div 18)

\* if -50 <= temp_value <= 60
TempInRange_any(v) == TRUE
TempInRange(v) == 0 - 50000 <= Thousandths(v) /\ Thousandths(v) <= 60000

\* if 0 <= wind_speed <= 400
WindInRange(v) == 0 <= Thousandths(v) /\ Thousandths(v) <= 400000

\* temp_value = float(temp_match.group(1)); if 'F' in temp_match.group(0).upper():
\*     temp_value = (temp_value - 32) * 5/9
TempValue(tm) ==
    IF tm.ws \cap {"°f", "f"} # {} THEN ToCelsius(ToFloat(tm.cap)) ELSE ToFloat(tm.cap)

\* if temp_match: ... if -50 <= temp_value <= 60: data['temperature_c'] = round(temp_value, 1)
StoreTemperature(data, tm) ==
    IF tm.ok /\ TempInRange(TempValue(tm))
    THEN [data EXCEPT !["temperature_c"] = Round1(TempValue(tm))] ELSE data

\* if wind_match: ... if 0 <= wind_speed <= 400: data['wind_speed_kmh'] = round(wind_speed, 1)
StoreWind(data, wm) ==
    IF wm.ok /\ WindInRange(ToFloat(wm.cap))
    THEN [data EXCEPT !["wind_speed_kmh"] = Round1(ToFloat(wm.cap))] ELSE data

\* if humidity_match: ... if 0 <= humidity <= 100: data['humidity_percent'] = round(humidity, 1)
StoreHumidity(data, hm) ==
    IF hm.ok /\ 0 <= Thousandths(ToFloat(hm.cap)) /\ Thousandths(ToFloat(hm.cap)) <= 100000
    THEN [data EXCEPT !["humidity_percent"] = Round1(ToFloat(hm.cap))] ELSE data

\* _extract_generic, step 4: the numeric patterns on the page text.
extract_generic(pg) ==
    StoreHumidity(
        StoreWind(
            StoreTemperature(NoData, search(temp_pattern, PageText(pg))),
            search(wind_pattern, PageText(pg))),
        search(humidity_pattern, PageText(pg)))

\* if 'reliefweb' in domain: ... elif 'ifrc' in domain: ... else: ...
Strategy(pg) ==
    CASE pg.domain = "reliefweb.int" -> extract_reliefweb(pg)
      [] pg.domain = "www.ifrc.org" -> extract_ifrc(pg)
      [] OTHER -> extract_generic(pg)

\* for key, value in pattern_data.items():
\*     if key not in report.data or report.data[key] is None: report.data[key] = value
\* (a field without a cascade result is not among pattern_data's keys)
AddPatternData(data, pattern_data) ==
    [key \in DOMAIN data |->
        IF key \in DOMAIN pattern_data /\ pattern_data[key] # NoValue
           /\ data[key] \in {AbsentValue, NoValue}
        THEN pattern_data[key] ELSE data[key]]

\* numeric_validations: field -> (min_val, max_val)
NumericFields == {"affected_population", "deaths", "displaced", "injured",
                  "precipitation_mm", "temperature_c", "wind_speed_kmh", "water_level",
                  "economic_loss_usd"}

numeric_validations(field) ==
    CASE field = "affected_population" -> <<0, 10000000>>
      [] field = "deaths" -> <<0, 10000>>
      [] field = "displaced" -> <<0, 1000000>>
      [] field = "injured" -> <<0, 100000>>
      [] field = "precipitation_mm" -> <<0, 2000>>
      [] field = "temperature_c" -> <<0 - 50, 60>>
      [] field = "wind_speed_kmh" -> <<0, 400>>
      [] field = "water_level" -> <<0, 50>>
      [] field = "economic_loss_usd" -> <<0, 100000 * 1000000>>

\* Comparisons of an int bound with a value whose whole part is its floor.
BoundLeq(b, v) == b <= v.w
BoundLt(b, v) == b < v.w \/ (b = v.w /\ v.m > 0)
LeqBound(v, b) == v.w < b \/ (v.w = b /\ v.m = 0)
LtBound(v, b) == v.w < b

\* Confidence scores are kept in tenths; NoScore: the field has no score.
NoScore == 0 - 1

\* scores[field] = 0.8 if min_val < value < max_val else 0.6, or 0.3
ScoreOf_loose(field, value) ==
    LET r == numeric_validations(field) IN
    IF BoundLeq(r[1], value) /\ LeqBound(value, r[2]) THEN 8 ELSE 3
ScoreOf(field, value) ==
    LET r == numeric_validations(field) IN
    IF BoundLeq(r[1], value) /\ LeqBound(value, r[2])
    THEN (IF BoundLt(r[1], value) /\ LtBound(value, r[2]) THEN 8 ELSE 6)
    ELSE 3

\* _calculate_confidence_scores(data), the numeric fields
calculate_confidence_scores(data) ==
    [field \in NumericFields |->
        IF field \in DOMAIN data /\ data[field] \notin {AbsentValue, NoValue}
        THEN ScoreOf(field, data[field]) ELSE NoScore]

\* The report of a page: the strategy's dict, the cascade's, report.data
\* before and after the cleaning, and the confidence scores.
MakeReport(strategy_data, pattern_data, merged) ==
    [strategy_data |-> strategy_data,
     pattern_data |-> pattern_data,
     merged |-> merged,
     confidence_scores |-> calculate_confidence_scores(merged),
     data |-> validate_and_clean_data(merged),
     errors |-> <<>>,
     success |-> TRUE]

MergeReport(strategy_data, pattern_data) ==
    MakeReport(strategy_data, pattern_data, AddPatternData(strategy_data, pattern_data))

BuildReport(pg) == MergeReport(Strategy(pg), extract_with_patterns_dict(PageText(pg)))

NoPageReport ==
    [strategy_data |-> NoData, pattern_data |-> NoResults, merged |-> NoData,
     confidence_scores |-> [field \in NumericFields |-> NoScore], data |-> NoData,
     errors |-> <<>>, success |-> FALSE]

\* The auxiliary data the enricher holds for the event.
HeldData == {NoData, [NoData EXCEPT !["affected_population"] = IntValue(7)]}

\* data_enricher.enrich_disaster_data(disaster_data): the event's dict with
\* the fields the auxiliary data holds.
enrich_event_data(event_data, held) ==
    [key \in DOMAIN event_data |->
        IF Present(held[key]) THEN held[key] ELSE event_data[key]]

\* for key, value in source_data.items():
\*     if key not in enriched_data or enriched_data[key] is None:
\*         enriched_data[key] = value
\* on the dict of a report (a key the source lacks is AbsentValue)
MergeWebData(enriched_data, source_data) ==
    [key \in DOMAIN enriched_data |->
        IF source_data[key] # AbsentValue /\ ~Present(enriched_data[key])
        THEN source_data[key] ELSE enriched_data[key]]

\* analysis_module.extract_features(disaster_info, web_content): the
\* features are derived from the event's merged fields.
extract_features(disaster_info, web_content) == disaster_info

\* for key, value in disaster_data.items():
\*     if key not in features_dict or features_dict[key] is None: ...
MergeFeaturesDict(features_dict, event_data) ==
    [key \in DOMAIN features_dict |->
        IF event_data[key] # AbsentValue /\ ~Present(features_dict[key])
        THEN event_data[key] ELSE features_dict[key]]

\* The attributes of DisasterFeatures a key of the report can reach.
ReportAttrs == ReportKeys \cap FeatureAttrs

\* _create_features_from_dict: attribute = features_dict.get(attribute)
create_features_from_dict(features_dict) ==
    [attr \in ReportAttrs |-> IF Present(features_dict[attr]) THEN features_dict[attr]
                               ELSE AbsentValue]

\* _create_basic_features, then, with an enricher,
\* if hasattr(enhanced.features, attr) and value is not None: setattr(...)
create_basic_features(event_data, with_enricher) ==
    [attr \in ReportAttrs |->
        IF with_enricher /\ Present(event_data[attr]) THEN event_data[attr]
        ELSE AbsentValue]

NoRecord ==
    [data_enricher |-> FALSE, analysis_module |-> FALSE, held |-> NoData,
     disaster_data |-> NoData, features |-> "none", attrs |-> [attr \in ReportAttrs |-> AbsentValue],
     nonnull |-> {}, completeness |-> 0]

\* fetch_and_analyze_floods, lines 506-590, for an event with this one
\* source: the report's data is stored, merged into the enricher's dict,
\* turned into features and measured.
BuildRecord(rep, with_enricher, with_module, held) ==
    LET raw == IF rep.success THEN rep.data ELSE NoData
        event_data == IF with_enricher
                         THEN MergeWebData(enrich_event_data(NoData, held), raw)
                         ELSE NoData
        attrs == IF with_module
                 THEN create_features_from_dict(
                          MergeFeaturesDict(extract_features(event_data, raw),
                                            event_data))
                 ELSE create_basic_features(event_data, with_enricher)
        e == [data_enricher |-> with_enricher, analysis_module |-> with_module,
              held |-> IF with_enricher THEN held ELSE NoData,
              disaster_data |-> event_data,
              features |-> IF with_module THEN "module" ELSE "basic",
              attrs |-> attrs,
              nonnull |-> BasicAttrs \cup {attr \in ReportAttrs : Present(attrs[attr])},
              completeness |-> 0]
    IN  [e EXCEPT !.completeness = calculate_completeness(e)]

\* Phrases the page bodies are made of.
Phrases ==
    { <<N(<<"1", "2", ",", "5", "0", "0">>), W("people"), W("affected")>>,
      <<N(<<"3">>), W("deaths")>>,
      <<N(<<"0">>), W("deaths")>>,
      <<N(<<"2", "0", "0", "0", "0">>), W("deaths")>>,
      <<N(<<"3", "5">>), W("°c")>>,
      <<N(<<"1", "5", "0">>), W("°c")>>,
      <<N(<<"1", "4", "0">>), W("°f")>>,
      <<N(<<"0">>), W("°f")>>,
      <<N(<<"5", "0", "0">>), W("km/h")>>,
      <<N(<<"8", "0", ".", "5">>), W("km/h")>>,
      <<N(<<"6", "0">>), W("meters"), W("water")>>,
      <<N(<<"5", "0">>), W("meters"), W("water")>> }

PageTexts == { Flatten(ps) : ps \in UNION { [1..n -> Phrases] : n \in 0..MaxPhrases } }

PageTables ==
    { [impact_headers |-> FALSE, rows |-> <<>>],
      [impact_headers |-> TRUE,
       rows |-> <<Row(<<"affected">>, <<"5", ",", "0", "0", "0">>)>>],
      [impact_headers |-> TRUE,
       rows |-> <<Row(<<"deaths">>, <<"7">>), Row(<<"injured">>, <<>>)>>],
      [impact_headers |-> FALSE,
       rows |-> <<Row(<<"people", "affected">>,
                      <<"2", "0", ".", "0", "0", "0", ".", "0", "0", "0">>),
                  Row(<<"homeless">>, <<"1", ",", "0", "0", "0", ",", "0", "0", "0">>),
                  Row(<<"people", "killed">>, <<"0">>)>>] }

Domains == {"reliefweb.int", "www.ifrc.org", "g1.globo.com"}

InitReportVars ==
    /\ rpc = "page"
    /\ \E d \in Domains, tb \in PageTables, tx \in PageTexts :
          page = [domain |-> d, impact_headers |-> tb.impact_headers, rows |-> tb.rows,
                  body |-> tx]
    /\ report = NoPageReport
    /\ record = NoRecord

IdleReportVars ==
    /\ rpc = "off"
    /\ page = [domain |-> "", impact_headers |-> FALSE, rows |-> <<>>, body |-> <<>>]
    /\ report = NoPageReport
    /\ record = NoRecord

\* extract_from_url, lines 100-133, on a page that was fetched
ExtractPage ==
    /\ rpc = "page"
    /\ report' = BuildReport(page)
    /\ rpc' = "report"
    /\ UNCHANGED <<page, record>>
    /\ UNCHANGED <<searchVars, extractVars, batchVars, cascadeVars, mergeVars, cleanVars,
                   seasonVars, poolVars>>

\* The event of the page gets its features.
AssembleRecord(with_enricher, with_module, held) ==
    /\ rpc = "report"
    /\ record' = BuildRecord(report, with_enricher, with_module, held)
    /\ rpc' = "record"
    /\ UNCHANGED <<page, report>>
    /\ UNCHANGED <<searchVars, extractVars, batchVars, cascadeVars, mergeVars, cleanVars,
                   seasonVars, poolVars>>

NextReport ==
    \/ ExtractPage
    \/ \E with_enricher \in BOOLEAN, with_module \in BOOLEAN, held \in HeldData :
          AssembleRecord(with_enricher, with_module, held)

\* ================================================================== SEASON
\* The temporal attributes of the features: _create_basic_features and
\* _create_features_from_dict parse basic_disaster.date and fall back on
\* datetime.now() when it is no ISO date.
Years == {2023, 2024}
Days == {1, 28}
Dates == [year : Years, month : 1..12, day : Days]

\* A date string that datetime.fromisoformat rejects.
NoDate == [year |-> 0, month |-> 0, day |-> 0]

\* _get_season(date): southern hemisphere
get_season_north(d) ==
    IF d.month \in {12, 1, 2} THEN "winter"
    ELSE IF d.month \in {3, 4, 5} THEN "spring"
    ELSE IF d.month \in {6, 7, 8} THEN "summer"
    ELSE "autumn"
get_season(d) ==
    IF d.month \in {12, 1, 2} THEN "summer"
    ELSE IF d.month \in {3, 4, 5} THEN "autumn"
    ELSE IF d.month \in {6, 7, 8} THEN "winter"
    ELSE "spring"

NoTemporal == [event_date |-> NoDate, season |-> "", month |-> 0, year |-> 0]

InitSeasonVars ==
    /\ dpc = "date"
    /\ date \in Dates \cup {NoDate}
    /\ temporal = NoTemporal

IdleSeasonVars ==
    /\ dpc = "off"
    /\ date = NoDate
    /\ temporal = NoTemporal

\* try: event_date = datetime.fromisoformat(...) except: event_date = datetime.now()
\* season=self._get_season(event_date), month=event_date.month, year=event_date.year
CreateTemporal(now) ==
    /\ dpc = "date"
    /\ LET event_date == IF date = NoDate THEN now ELSE date IN
       temporal' = [event_date |-> event_date, season |-> get_season(event_date),
                    month |-> event_date.month, year |-> event_date.year]
    /\ dpc' = "done"
    /\ UNCHANGED date
    /\ UNCHANGED <<searchVars, extractVars, batchVars, cascadeVars, mergeVars, cleanVars,
                   reportVars, poolVars>>

NextSeason == \E now \in Dates : CreateTemporal(now)

\* ==================================================================== POOL
\* extract_batch(urls, max_workers): every url is submitted to a
\* ThreadPoolExecutor as a call extract_from_url(url); the workers share
\* self.cache.  A task is the future of one submitted call:
\*   queued   - in the executor's work queue
\*   lookup   - a worker runs it and is at the cache test
\*   fetch    - the cache test failed; fetching and extracting
\*   finished - the call returned (out = "report") or threw (out = "raise")
\*   yielded  - as_completed has yielded the future and results was updated
NewTask(url) == [url |-> url, st |-> "queued", out |-> "none", rep |-> NoReport]

UrlLists == UNION { [1..n -> Urls] : n \in 0..MaxUrls }

InitPoolVars ==
    /\ ppc = "call"
    /\ urls \in UrlLists
    /\ max_workers \in 0..MaxWorkers
    /\ tasks = <<>>
    /\ last_future = [u \in Urls |-> 0]
    /\ batch_results = [u \in Urls |-> NoReport]

IdlePoolVars ==
    /\ ppc = "off"
    /\ urls = <<>>
    /\ max_workers = 0
    /\ tasks = <<>>
    /\ last_future = [u \in Urls |-> 0]
    /\ batch_results = [u \in Urls |-> NoReport]

\* ThreadPoolExecutor.__init__: if max_workers <= 0: raise ValueError
ValidWorkers(mw) == mw > 0

\* with ThreadPoolExecutor(max_workers=max_workers) as executor:
\*     future_to_url = {executor.submit(self.extract_from_url, url): url for url in urls}
Submit ==
    /\ ppc = "call"
    /\ IF ValidWorkers(max_workers)
       THEN /\ tasks' = [i \in 1..Len(urls) |-> NewTask(urls[i])]
            /\ ppc' = "pool"
       ELSE /\ ppc' = "raised"
            /\ UNCHANGED tasks
    /\ UNCHANGED <<urls, max_workers, last_future, batch_results>>
    /\ UNCHANGED extractVars
    /\ UNCHANGED <<searchVars, batchVars, cascadeVars, mergeVars, cleanVars, reportVars,
                   seasonVars>>

\* The calls that a worker thread is running.
Running(ts) == {i \in 1..Len(ts) : ts[i].st \in {"lookup", "fetch"}}

\* The executor starts at most max_workers threads; each takes the next work
\* item off the queue when it is free.
FreeWorker_always(ts, mw) == TRUE
FreeWorker(ts, mw) == Cardinality(Running(ts)) < mw

\* A worker takes the oldest queued call off the work queue.
StartTask(t) ==
    /\ ppc = "pool"
    /\ tasks[t].st = "queued"
    /\ \A i \in 1..(t - 1) : tasks[i].st # "queued"
    /\ FreeWorker(tasks, max_workers)
    /\ tasks' = [tasks EXCEPT ![t].st = "lookup"]
    /\ UNCHANGED <<ppc, urls, max_workers, last_future, batch_results>>
    /\ UNCHANGED extractVars
    /\ UNCHANGED <<searchVars, batchVars, cascadeVars, mergeVars, cleanVars, reportVars,
                   seasonVars>>

\* extract_from_url in a worker, up to the cache test: a hit returns the
\* cached report; thrown: an exception leaves the call before its try block.
Lookup(t, thrown) ==
    /\ ppc = "pool"
    /\ tasks[t].st = "lookup"
    /\ tasks' =
          IF thrown
          THEN [tasks EXCEPT ![t].st = "finished", ![t].out = "raise"]
          ELSE IF CacheHit(cache, tasks[t].url, FALSE)
          THEN [tasks EXCEPT ![t].st = "finished", ![t].out = "report",
                             ![t].rep = cache[tasks[t].url]]
          ELSE [tasks EXCEPT ![t].st = "fetch"]
    /\ UNCHANGED <<ppc, urls, max_workers, last_future, batch_results>>
    /\ UNCHANGED extractVars
    /\ UNCHANGED <<searchVars, batchVars, cascadeVars, mergeVars, cleanVars, reportVars,
                   seasonVars>>

\* extract_from_url in a worker after the cache test: the fetch with its
\* retries, the extraction, and self.cache[url] = report on success.
\*   ok    - the page was fetched and extracted
\*   empty - _fetch_with_retry returned nothing
\*   exc   - the fetch or a step of the extraction threw
FetchAndExtract(t, o) ==
    /\ ppc = "pool"
    /\ tasks[t].st = "fetch"
    /\ LET r == NewReport(tasks[t].url, t) IN
       IF o = "ok"
       THEN /\ tasks' = [tasks EXCEPT ![t].st = "finished", ![t].out = "report",
                                      ![t].rep = SuccessReport(r)]
            /\ cache' = CacheStore(cache, tasks[t].url, SuccessReport(r))
       ELSE /\ tasks' = [tasks EXCEPT ![t].st = "finished", ![t].out = "report",
                                      ![t].rep = IF o = "empty" THEN FetchFailedReport(r)
                                                 ELSE OnExtractException(r).report]
            /\ UNCHANGED cache
    /\ UNCHANGED <<ppc, urls, max_workers, last_future, batch_results>>
    /\ UNCHANGED <<epc, requests, cur, attempt, lastFetch, lastParse, ret, serial, ncalls>>
    /\ UNCHANGED <<searchVars, batchVars, cascadeVars, mergeVars, cleanVars, reportVars,
                   seasonVars>>

\* try: results[url] = future.result()
\* except Exception as e: results[url] = ExtractionReport(url=url, success=False,
\*                                                        errors=[str(e)])
OnWorkerException_none(task) == task.rep
OnWorkerException(task) ==
    [url |-> task.url, success |-> FALSE, errors |-> <<"str(e)">>, serial |-> 0]

FutureResult(task) == IF task.out = "raise" THEN OnWorkerException(task) ELSE task.rep

\* One iteration of "for future in as_completed(future_to_url)".
Collect(t) ==
    /\ ppc = "pool"
    /\ tasks[t].st = "finished"
    /\ batch_results' = [batch_results EXCEPT ![tasks[t].url] = FutureResult(tasks[t])]
    /\ tasks' = [tasks EXCEPT ![t].st = "yielded"]
    /\ last_future' = [last_future EXCEPT ![tasks[t].url] = t]
    /\ UNCHANGED <<ppc, urls, max_workers>>
    /\ UNCHANGED extractVars
    /\ UNCHANGED <<searchVars, batchVars, cascadeVars, mergeVars, cleanVars, reportVars,
                   seasonVars>>

\* as_completed is exhausted, the with block shuts the executor down: return results
ReturnResults ==
    /\ ppc = "pool"
    /\ \A i \in 1..Len(tasks) : tasks[i].st = "yielded"
    /\ ppc' = "returned"
    /\ UNCHANGED <<urls, max_workers, tasks, last_future, batch_results>>
    /\ UNCHANGED extractVars
    /\ UNCHANGED <<searchVars, batchVars, cascadeVars, mergeVars, cleanVars, reportVars,
                   seasonVars>>

NextPool ==
    \/ Submit
    \/ \E t \in 1..Len(tasks) : StartTask(t)
    \/ \E t \in 1..Len(tasks), thrown \in BOOLEAN : Lookup(t, thrown)
    \/ \E t \in 1..Len(tasks), o \in {"ok", "empty", "exc"} : FetchAndExtract(t, o)
    \/ \E t \in 1..Len(tasks) : Collect(t)
    \/ ReturnResults

\* ========================================================== SPECIFICATIONS
InitSearch == InitSearchVars /\ InitExtractVars /\ IdleBatchVars /\ IdleCascadeVars /\ IdleMergeVars /\ IdleCleanVars /\ IdleReportVars /\ IdleSeasonVars /\ IdlePoolVars

SpecSearch == InitSearch /\ [][NextSearch]_vars

\* search_all_pages runs on the caller's thread and every request carries
\* Config.REQUEST_TIMEOUT, so a step that can be taken is taken.
SpecSearchLive == InitSearch /\ [][NextSearch]_vars /\ WF_vars(NextSearch)

InitExtract == InitSearchVars /\ InitExtractVars /\ IdleBatchVars /\ IdleCascadeVars /\ IdleMergeVars /\ IdleCleanVars /\ IdleReportVars /\ IdleSeasonVars /\ IdlePoolVars

SpecExtract == InitExtract /\ [][NextExtract]_vars

InitBatch == InitSearchVars /\ InitExtractVars /\ InitBatchVars /\ IdleCascadeVars /\ IdleMergeVars /\ IdleCleanVars /\ IdleReportVars /\ IdleSeasonVars /\ IdlePoolVars

SpecBatch == InitBatch /\ [][NextBatch]_vars

InitSources == InitSearchVars /\ InitExtractVars /\ InitSourcesVars /\ IdleCascadeVars /\ IdleMergeVars /\ IdleCleanVars /\ IdleReportVars /\ IdleSeasonVars /\ IdlePoolVars

SpecSources == InitSources /\ [][NextSources]_vars

InitTraining == InitSearchVars /\ InitExtractVars /\ InitTrainingVars /\ IdleCascadeVars /\ IdleMergeVars /\ IdleCleanVars /\ IdleReportVars /\ IdleSeasonVars /\ IdlePoolVars

SpecTraining == InitTraining /\ [][prepare_for_training]_vars

InitCompleteness ==
    InitSearchVars /\ InitExtractVars /\ InitCompletenessVars /\ IdleCascadeVars /\ IdleMergeVars /\ IdleCleanVars /\ IdleReportVars /\ IdleSeasonVars /\ IdlePoolVars

SpecCompleteness == InitCompleteness /\ [][CalculateCompleteness]_vars

InitMerge ==
    InitSearchVars /\ InitExtractVars /\ IdleBatchVars /\ IdleCascadeVars /\ InitMergeVars /\ IdleCleanVars /\ IdleReportVars /\ IdleSeasonVars /\ IdlePoolVars

SpecMerge == InitMerge /\ [][NextMerge]_vars

InitClean ==
    InitSearchVars /\ InitExtractVars /\ IdleBatchVars /\ IdleCascadeVars /\ IdleMergeVars
       /\ InitCleanVars /\ IdleReportVars /\ IdleSeasonVars /\ IdlePoolVars

SpecClean == InitClean /\ [][CleanAgain]_vars

InitReport ==
    InitSearchVars /\ InitExtractVars /\ IdleBatchVars /\ IdleCascadeVars /\ IdleMergeVars
       /\ IdleCleanVars /\ InitReportVars /\ IdleSeasonVars /\ IdlePoolVars

SpecReport == InitReport /\ [][NextReport]_vars

InitSeason ==
    InitSearchVars /\ InitExtractVars /\ IdleBatchVars /\ IdleCascadeVars /\ IdleMergeVars
       /\ IdleCleanVars /\ IdleReportVars /\ InitSeasonVars /\ IdlePoolVars

SpecSeason == InitSeason /\ [][NextSeason]_vars

InitPool == InitSearchVars /\ InitExtractVars /\ IdleBatchVars /\ IdleCascadeVars /\ IdleMergeVars /\ IdleCleanVars /\ IdleReportVars /\ IdleSeasonVars /\ InitPoolVars

SpecPool == InitPool /\ [][NextPool]_vars

InitCascade == InitSearchVars /\ InitExtractVars /\ IdleBatchVars /\ InitCascadeVars /\ IdleMergeVars /\ IdleCleanVars /\ IdleReportVars /\ IdleSeasonVars /\ IdlePoolVars

SpecCascade == InitCascade /\ [][NextCascade]_vars

\* -------------------------------------------------------- claims on BATCH
\* C1: whatever fails, the records appended so far are exactly the events
\* processed so far, in catalog order, so the finished run holds one record
\* per catalog event; a record whose processing threw has a non-empty error
\* list, and the loop goes on to the next event.
C1_OneRecordPerEvent ==
    /\ Len(disasters) = bi - 1
    /\ \A i \in 1..Len(disasters) :
          /\ disasters[i].id = catalog[i].id
          /\ disasters[i].fault => Len(disasters[i].errors) >= 1
    /\ bpc = "done" => Len(disasters) = Len(catalog)

\* C1 witness: the first event failed in the outer handler, the second event
\* was still processed to the end, and the run finished with both records.
C1_Witness ==
    /\ bpc = "done" /\ Len(catalog) = 2 /\ Len(disasters) = 2
    /\ disasters[1].fault /\ disasters[1].features = "none"
    /\ ~disasters[2].fault /\ disasters[2].features # "none"

\* C30: a record whose features come from the basic path without an enricher
\* has 7 of the 44 counted attributes set, one built from the analysis
\* module's dictionary has at most 19 of 44, neither is ever listed in
\* features_matrix, and every record listed there was built by the basic
\* path of a lookup that has an enricher.
C30_MatrixReachability ==
    /\ \A i \in 1..Len(disasters) :
          LET d == disasters[i] IN
          /\ (d.features = "basic" /\ ~lookup.data_enricher) =>
                d.completeness * TotalCounted = 7 * CompletenessScale
          /\ d.features = "module" =>
                d.completeness * TotalCounted <= 19 * CompletenessScale
          /\ (d.features = "module" \/ ~lookup.data_enricher) =>
                /\ d.completeness <= Threshold
                /\ \A j \in 1..Len(features_matrix) : features_matrix[j] # i
    /\ \A j \in 1..Len(features_matrix) :
          /\ disasters[features_matrix[j]].features = "basic"
          /\ lookup.data_enricher /\ ~lookup.analysis_module

\* C30 witness: a finished run with an analysis module and an enricher whose
\* record has all 19 attributes of the module path set and is not listed.
C30_Witness ==
    /\ bpc = "done"
    /\ lookup.analysis_module /\ lookup.data_enricher
    /\ Len(disasters) >= 1
    /\ disasters[1].features = "module"
    /\ disasters[1].completeness * TotalCounted = 19 * CompletenessScale
    /\ features_matrix = <<>>

\* C30 witness: without a module, the enriched basic record is listed.
C30_WitnessListed ==
    /\ bpc = "done"
    /\ lookup.data_enricher /\ ~lookup.analysis_module
    /\ features_matrix # <<>>

\* The entries of a record's error list that name a source, in order.
SourceEntries(d) == SelectSeq(d.errors, LAMBDA x : x.src > 0)

\* C23: when the extraction of a source of an event fails (a failed report or
\* an exception), one entry naming that source is appended to the event's
\* errors, the other sources of the event are extracted all the same, and
\* the event gets its features and a computed completeness.
C23_PageContainment ==
    \A i \in 1..Len(disasters) :
       LET d == disasters[i]
           n == Min(d.nsources, ExtractLimit)
           es == SourceEntries(d)
       IN  (lookup.web_extractor /\ d.nsources > 0) =>
              /\ \A j \in 1..Len(es) : es[j].src \in 1..n
              /\ \A j, k \in 1..Len(es) : j < k => es[j].src < es[k].src
              /\ d.web + Len(es) = n
              /\ (\A j \in 1..Len(d.errors) : d.errors[j].msg # "Erro na analise")
                    => /\ d.features # "none"
                       /\ d.completeness = calculate_completeness(d)
                       /\ d.completeness > 0

\* C23 witness: the first of two sources failed, the second was extracted,
\* and the event has features and a completeness.
C23_Witness ==
    /\ Len(disasters) >= 1
    /\ disasters[1].nsources = 2
    /\ disasters[1].errors = <<ErrorEntry("Falha ao extrair", 1)>>
    /\ disasters[1].web = 1
    /\ disasters[1].features # "none"
    /\ disasters[1].completeness > 0

\* -------------------------------------------------------- claims on MERGE
\* The successful sources, in rank order, that give field f a value.
Providers(f) ==
    SelectSeq([i \in 1..Min(Len(sources), ExtractLimit) |-> sources[i]],
              LAMBDA src : src.success /\ src.data[f] # Absent)

HasValue(v) == v # Absent /\ v # Null

\* The stored source data that the merge reads, in the order it reads them.
StoredValues(f) ==
    SelectSeq([i \in 1..Len(raw_web_data) |-> raw_web_data[i][2][f]],
              LAMBDA v : v # Absent)

\* C12: the merge never overwrites: a field for which the map being merged
\* into already holds a value keeps it, whether it came from the enricher or
\* from source data merged before; a source value is written only where the
\* field was absent or None.
C12_MergeNeverOverwrites ==
    mpc = "merged" =>
       \A f \in MergeFields :
          /\ HasValue(aux[f]) => disaster_data[f] = aux[f]
          /\ (~HasValue(aux[f]) /\ StoredValues(f) # <<>>)
                => disaster_data[f] = StoredValues(f)[1]
          /\ (~HasValue(aux[f]) /\ StoredValues(f) = <<>>) => disaster_data[f] = aux[f]

\* C12 witness: deaths=5 is merged from the first host, the second host's
\* report holds deaths=10, and the merged map keeps 5.
C12_Witness ==
    /\ mpc = "merged"
    /\ ~HasValue(aux["deaths"])
    /\ Len(raw_web_data) = 2
    /\ raw_web_data[1][2]["deaths"] = 5
    /\ raw_web_data[2][2]["deaths"] = 10
    /\ disaster_data["deaths"] = 5

\* C13: when two sources of the event both yield a value for a field (and
\* nothing else provides it), the merged value is that of the source ranked
\* earlier, also when the sources share a display host.
C13_SourceRankOrder ==
    mpc = "merged" =>
       \A f \in MergeFields :
          (~HasValue(aux[f]) /\ Providers(f) # <<>>)
             => disaster_data[f] = Providers(f)[1].data[f]

\* C14: when a source report and the auxiliary data both provide a value for
\* a field, the merged value is the source report's.
C14_SourcesBeforeAuxiliary ==
    mpc = "merged" =>
       \A f \in MergeFields :
          (HasValue(aux[f]) /\ StoredValues(f) # <<>>)
             => disaster_data[f] = StoredValues(f)[1]

\* -------------------------------------------------------- claims on CLEAN
\* C20: cleaning is idempotent: cleaning a dict that came out of the cleaning
\* returns it unchanged.
C20_CleanIdempotent ==
    kpc = 2 => clean_out = clean_in

\* C20 witness: an over-long padded string was cut to 5000 characters plus
\* '...' by the first cleaning and came out of the second one the same.
C20_Witness ==
    /\ kpc = 2
    /\ clean_out["summary"] = StrValue(<<Run("x", MaxStrLen), Run(".", 3)>>)
    /\ clean_in["latitude"] = FloatValue(0 - 18, 200)
    /\ clean_out["latitude"] = FloatValue(0 - 18, 200)

\* C21: what the cleaning returns holds no None, no blank string, no empty
\* list and no negative number under a key other than latitude and
\* longitude; a negative latitude or longitude is kept as it was, unrounded.
C21_CleanOutput ==
    kpc = 1 =>
       \A key \in DOMAIN clean_out :
          LET v == clean_out[key] IN
          /\ v.t # "none"
          /\ v.t = "str" => (v.s # <<>> /\ Strip_str(v.s) # <<>>)
          /\ v.t = "list" => v.s # <<>>
          /\ (v.t \in {"int", "float"} /\ v.w < 0) => key \in {"latitude", "longitude"}
          /\ (key \in {"latitude", "longitude"} /\ clean_in[key].t \in {"int", "float"}
                /\ clean_in[key].w < 0) => v = clean_in[key]

\* C21 witness: a negative latitude with three decimals came out as it went
\* in, and a negative number under another key was left out.
C21_Witness ==
    /\ kpc = 1
    /\ clean_in["latitude"] = FloatValue(0 - 23, 449)
    /\ clean_out["latitude"] = FloatValue(0 - 23, 449)
    /\ clean_in["summary"] = IntValue(0 - 3)
    /\ clean_out["summary"] = AbsentValue

\* ------------------------------------------------------- claims on REPORT
\* The key under which the strategies, the confidence table and the feature
\* schema hold a cascade target field.
StrategyKey(field) ==
    CASE field = "affected" -> "affected_population"
      [] field = "precipitation" -> "precipitation_mm"
      [] field = "economic_loss" -> "economic_loss_usd"
      [] OTHER -> field

CascadeKeys == {CascadeFields[i] : i \in 1..Len(CascadeFields)}

\* C11: for every cascade target field, when the strategy of the page's
\* domain set the field, the cascade pass adds no value for it: the entry
\* under the cascade's key is what the strategy left there.
C11_StructuredPrecedence ==
    rpc = "report" =>
       \A f \in CascadeKeys :
          Present(report.strategy_data[StrategyKey(f)])
             => report.merged[f] = report.strategy_data[f]

\* C17: every numeric field of the range table that holds a value gets 0.8
\* strictly inside its range, 0.6 on a bound and 0.3 outside, and a value
\* outside its range is still among the report's fields.
C17_ConfidenceScoring ==
    rpc = "report" =>
       \A f \in NumericFields :
          LET v == report.merged[f]
              lo == numeric_validations(f)[1]
              hi == numeric_validations(f)[2]
              score == report.confidence_scores[f]
          IN  IF ~Present(v) THEN score = NoScore
              ELSE /\ (BoundLt(lo, v) /\ LtBound(v, hi)) => score = 8
                   /\ (BoundLeq(lo, v) /\ LeqBound(v, hi)
                         /\ ~(BoundLt(lo, v) /\ LtBound(v, hi))) => score = 6
                   /\ ~(BoundLeq(lo, v) /\ LeqBound(v, hi))
                         => (score = 3 /\ Present(report.data[f]))

\* C17 witness: a death count on the lower bound, one water level above its
\* range that is kept, and an affected population inside its range.
C17_Witness ==
    /\ rpc = "report"
    /\ report.merged["deaths"] = IntValue(0)
    /\ report.confidence_scores["deaths"] = 6
    /\ report.merged["water_level"] = FloatValue(60, 0)
    /\ report.confidence_scores["water_level"] = 3
    /\ report.data["water_level"] = FloatValue(60, 0)
    /\ report.merged["affected_population"] = IntValue(5000)
    /\ report.confidence_scores["affected_population"] = 8

\* The impact attributes of DisasterFeatures.
ImpactAttrs == {"affected_population", "deaths", "injured", "displaced",
                "economic_loss_usd"}

\* C18: for a page whose text yields affected = 12500 and deaths = 3 through
\* the pattern cascade alone, with an enricher that holds no auxiliary data,
\* the report scores the affected population and the deaths 0.8 each, both
\* values are the affected_population and deaths attributes of the event's
\* features, and these two are the impact attributes that completeness counts.
C18_EndToEnd ==
    (/\ rpc = "record"
     /\ record.data_enricher
     /\ record.held = NoData
     /\ ~Present(report.strategy_data["affected_population"])
     /\ ~Present(report.strategy_data["deaths"])
     /\ report.pattern_data["affected"] = IntValue(12500)
     /\ report.pattern_data["deaths"] = IntValue(3))
       => /\ report.confidence_scores["affected_population"] = 8
          /\ report.confidence_scores["deaths"] = 8
          /\ record.attrs["affected_population"] = IntValue(12500)
          /\ record.attrs["deaths"] = IntValue(3)
          /\ record.nonnull \cap ImpactAttrs = {"affected_population", "deaths"}

\* The value the cleaning keeps for a number it does not drop.
KeptAs(v) == IF v.t = "float" THEN Round2(v) ELSE v

\* C22: a value that a strategy or the cascade extracted and that the report
\* does not carry leaves its field unset, or the report lists a warning: no
\* field holds anything but the extracted value (rounded) or nothing, and a
\* temperature or wind match rejected by its sanity range leaves no value.
C22_NoSilentLoss ==
    rpc = "report" =>
       \/ report.errors # <<>>
       \/ /\ \A key \in ReportKeys :
                \/ report.data[key] = AbsentValue
                \/ /\ Present(report.merged[key])
                   /\ report.data[key] = KeptAs(report.merged[key])
          /\ \A key \in ReportKeys :
                ~Present(report.merged[key]) => report.data[key] = AbsentValue

\* C22 witness: 0 degrees Fahrenheit was read as -17.8 degrees Celsius, the
\* cleaning dropped it, and the report's field is unset.
C22_Witness ==
    /\ rpc = "report"
    /\ report.merged["temperature_c"] = FloatValue(0 - 18, 200)
    /\ report.data["temperature_c"] = AbsentValue
    /\ report.errors = <<>>

\* C28: in every report, each numeric field that has a confidence score is
\* also among the report's fields: no score is reported for a value that the
\* cleaning removed.
C28_ScoredFieldsPresent ==
    rpc = "report" =>
       \A f \in NumericFields :
          report.confidence_scores[f] # NoScore => Present(report.data[f])

\* The temperature the generic strategy reads off the text, in Celsius.
TempMatch == search(temp_pattern, PageText(page))

TempRead == TempValue(TempMatch)

WindMatch == search(wind_pattern, PageText(page))

\* C19: on a page handled by the generic strategy, a temperature match
\* outside [-50, 60] or a wind speed match outside [0, 400] is not stored and
\* gets no confidence, and a match of 35 degrees Celsius is stored with 0.8.
C19_SanityRanges ==
    (rpc = "report" /\ page.domain = "g1.globo.com") =>
       /\ (TempMatch.ok /\ (LtBound(TempRead, 0 - 50) \/ BoundLt(60, TempRead)))
             => /\ report.data["temperature_c"] = AbsentValue
                /\ report.confidence_scores["temperature_c"] = NoScore
       /\ (WindMatch.ok /\ BoundLt(400, ToFloat(WindMatch.cap)))
             => /\ report.data["wind_speed_kmh"] = AbsentValue
                /\ report.confidence_scores["wind_speed_kmh"] = NoScore
       /\ (TempMatch.ok /\ TempRead = FloatValue(35, 0))
             => /\ report.data["temperature_c"] = FloatValue(35, 0)
                /\ report.confidence_scores["temperature_c"] = 8

\* C19 witness: 150 degrees Celsius is read first and not stored, 500 km/h is
\* not stored either.
C19_Witness ==
    /\ rpc = "report"
    /\ page.domain = "g1.globo.com"
    /\ TempMatch.ok /\ TempRead = FloatValue(150, 0)
    /\ WindMatch.ok /\ WindMatch.cap = <<"5", "0", "0">>
    /\ report.data["temperature_c"] = AbsentValue
    /\ report.data["wind_speed_kmh"] = AbsentValue

\* C19 witness: 35 degrees Celsius is stored with confidence 0.8.
C19_WitnessStored ==
    /\ rpc = "report"
    /\ page.domain = "g1.globo.com"
    /\ TempMatch.ok /\ TempRead = FloatValue(35, 0)
    /\ report.data["temperature_c"] = FloatValue(35, 0)
    /\ report.confidence_scores["temperature_c"] = 8

\* ------------------------------------------------------- claims on SEASON
\* C25: the season is summer for the months 12, 1, 2, autumn for 3, 4, 5,
\* winter for 6, 7, 8 and spring for 9, 10, 11: every month of 1..12 gets
\* exactly one season.
C25_SeasonMapping ==
    dpc = "done" =>
       /\ temporal.month \in 1..12
       /\ temporal.season \in {"summer", "autumn", "winter", "spring"}
       /\ temporal.season = "summer" <=> temporal.month \in {12, 1, 2}
       /\ temporal.season = "autumn" <=> temporal.month \in {3, 4, 5}
       /\ temporal.season = "winter" <=> temporal.month \in {6, 7, 8}
       /\ temporal.season = "spring" <=> temporal.month \in {9, 10, 11}

\* C25 witness: an event of December is a summer event.
C25_Witness ==
    /\ dpc = "done"
    /\ date # NoDate
    /\ temporal.month = 12
    /\ temporal.season = "summer"

\* ----------------------------------------------------- claims on TRAINING
Increasing(xs) == \A i, j \in 1..Len(xs) : i < j => xs[i] < xs[j]

\* C15: once prepare_for_training has run, features_matrix lists, in record
\* order and once each, exactly the records whose completeness is strictly
\* above 0.6, and metadata total_samples is its length.
C15_FeatureMatrixInclusion ==
    bpc = "done" =>
       /\ Increasing(features_matrix)
       /\ \A j \in 1..Len(features_matrix) : features_matrix[j] \in 1..Len(disasters)
       /\ \A i \in 1..Len(disasters) :
             (\E j \in 1..Len(features_matrix) : features_matrix[j] = i)
                <=> disasters[i].completeness > Threshold
       /\ metadata.total_samples = Len(features_matrix)

\* C15 witness: a record at exactly 0.6 is left out while a later one just
\* above it is taken.
C15_Witness ==
    /\ bpc = "done"
    /\ Len(disasters) >= 2
    /\ disasters[1].features # "none"
    /\ disasters[1].completeness = Threshold
    /\ disasters[2].completeness = Threshold + 5
    /\ features_matrix = <<2>>
    /\ metadata.total_samples = 1

\* ------------------------------------------------- claims on COMPLETENESS
\* C16: calculate_completeness gives the number of non-None attributes other
\* than extraction_timestamp and data_quality_score, divided by the number of
\* attributes other than those two; the value lies in [0, 1] and is 0 when
\* the event has no features.
C16_CompletenessFormula ==
    bpc = "measured" =>
       /\ 0 <= enhanced.completeness /\ enhanced.completeness <= CompletenessScale
       /\ IF enhanced.features = "none" THEN enhanced.completeness = 0
          ELSE enhanced.completeness * Cardinality(CountedAttrs)
                  = CompletenessScale * Cardinality(enhanced.nonnull \cap CountedAttrs)

\* C16 witness: the two bookkeeping attributes are set and not counted: the
\* seven required attributes and deaths give 8/44.
C16_Witness ==
    /\ bpc = "measured"
    /\ enhanced.nonnull = RequiredAttrs \cup Bookkeeping \cup {"deaths"}
    /\ enhanced.completeness * 44 = CompletenessScale * 8

\* ------------------------------------------------------ claims on CASCADE
FirstMatching(field, txt) ==
    LET pats == compile_patterns(field)
        hit == {j \in 1..Len(pats) : search(pats[j], txt).ok}
    IN  IF hit = {} THEN 0 ELSE CHOOSE j \in hit : \A h \in hit : j <= h

\* C10: for every field, the value the cascade returns is the one captured by
\* the matching pattern of lowest priority index, wherever its match lies in
\* the text; a field no pattern matches gets no value.
C10_FirstPatternWins ==
    cpc = "done" =>
       \A f \in DOMAIN results :
          LET k == FirstMatching(f, text) IN
          IF k = 0 THEN results[f] = NoValue
          ELSE /\ results[f] # NoValue
               /\ results[f] = process_match(search(compile_patterns(f)[k], text), f)

\* C10 witness: "died 7 3 killed": the second deaths pattern matches first in
\* the text (7), the first pattern matches later (3), and 3 is returned.
C10_Witness ==
    /\ cpc = "done"
    /\ text = <<W("died"), N(<<"7">>), N(<<"3">>), W("killed")>>
    /\ search(compile_patterns("deaths")[2], text).cap = <<"7">>
    /\ results["deaths"] = IntValue(3)

\* --------------------------------------------------------- claims on POOL
\* C24: under every interleaving of the workers of extract_batch the cache is
\* append-only: the cache test and the insert for a url act as one step, so
\* no worker is fetching a url that another worker is fetching or has
\* stored, and an entry, once written, is never replaced.
C24_CacheAppendOnly ==
    [][ /\ \A u \in Urls : cache[u] # NoReport => cache'[u] = cache[u]
        /\ \A i, j \in Running(tasks') :
              (tasks'[i].st = "fetch" /\ tasks'[j].st = "fetch" /\ tasks'[i].url = tasks'[j].url)
                 => i = j
      ]_vars

\* The keys of the dict extract_batch returns, and the urls it was given.
KeySet == {u \in Urls : batch_results[u] # NoReport}

DistinctUrls == {urls[i] : i \in 1..Len(urls)}

\* At most max_workers calls run at once; the returned dict has exactly the
\* distinct urls as keys, each with the report of the call of that url that
\* completed last, which is a failure report naming the url when that call
\* threw.
PoolContract ==
    /\ Cardinality(Running(tasks)) <= max_workers
    /\ ppc = "returned" =>
          /\ KeySet = DistinctUrls
          /\ \A i \in 1..Len(urls) : tasks[i].url = urls[i] /\ tasks[i].st = "yielded"
          /\ \A u \in DistinctUrls :
                LET t == last_future[u] IN
                /\ batch_results[u].url = u
                /\ tasks[t].out = "raise" =>
                      (~batch_results[u].success /\ Len(batch_results[u].errors) = 1)
                /\ tasks[t].out = "report" => batch_results[u] = tasks[t].rep

C29_WitnessBusy ==
    /\ ppc = "pool" /\ max_workers = 2
    /\ Cardinality(Running(tasks)) = 2
    /\ \E i \in 1..Len(tasks) : tasks[i].st = "queued"

\* ------------------------------------------------------ claims on EXTRACT
Returned == epc = "idle" /\ ret.kind # "none"

\* C2: extract_from_url never raises; a call whose fetch failed after its
\* retries (or threw), or whose parsing/extraction threw, returns a report
\* with success = False and at least one error string.
C2_ExtractNeverRaises ==
    /\ ret.kind # "raise"
    /\ (Returned /\ ~ret.hit /\ (lastFetch.result # "content" \/ lastParse = "exc")) =>
          /\ ret.kind = "report"
          /\ ret.report.url = cur.url
          /\ ~ret.report.success
          /\ Len(ret.report.errors) >= 1

\* C2 witness: the page was fetched and a parsing/extraction step threw.
C2_Witness ==
    /\ Returned /\ lastFetch.result = "content" /\ lastParse = "exc"
    /\ ret.kind = "report" /\ ~ret.report.success

\* C7 (as claimed): a timeout or transport error is followed by another attempt
\* while attempts remain, and an attempt that ends in a 4xx response is never
\* followed by another one.
C7_ClientErrorNotRetried ==
    /\ \A i \in 1..Len(lastFetch.outcomes) :
          (lastFetch.outcomes[i] \in {"timeout", "connection"} /\ i < max_retries
             /\ i = Len(lastFetch.outcomes)) => epc = "fetch"
    /\ \A i \in 1..Len(lastFetch.outcomes) :
          lastFetch.outcomes[i] = "http4xx" => i = Len(lastFetch.outcomes)
    /\ (lastFetch.outcomes # <<>> /\ lastFetch.outcomes[1] = "http4xx") => epc # "fetch"

\* Number of failed attempts of a fetch
RECURSIVE Pow2Seq(_)
Pow2Seq(n) == IF n = 0 THEN <<>> ELSE Append(Pow2Seq(n - 1), 2 ^ (n - 1))

\* C8: a fetch makes at most max_retries attempts, stops at the first
\* successful one and returns its content, sleeps 1, 2, 4, ... after each
\* failed attempt but the last, and returns None (no content) when every
\* attempt failed.
C8_FetchBoundBackoff ==
    LET outs == lastFetch.outcomes
        failed == {i \in 1..Len(outs) : IsRequestException(outs[i])}
    IN  /\ Len(outs) <= max_retries
        /\ \A i \in 1..(Len(outs) - 1) : outs[i] \notin {"ok", "empty"}
        /\ lastFetch.result = "content" <=> (outs # <<>> /\ Last(outs) = "ok")
        /\ lastFetch.sleeps = Pow2Seq(Min(Cardinality(failed), max_retries - 1))
        /\ (Len(outs) = max_retries /\ Cardinality(failed) = max_retries)
              => (lastFetch.result = "None" /\ epc # "fetch")
        /\ lastFetch.result = "None" => Cardinality(failed) = max_retries

\* C8 witness: every attempt failed, two sleeps of 1 and 2, result None.
C8_Witness ==
    /\ lastFetch.result = "None"
    /\ Len(lastFetch.outcomes) = max_retries
    /\ lastFetch.sleeps = <<1, 2>>

\* C9: a call without force_refresh on a cached url returns the cached report
\* and makes no request; a cached url stays cached; a call with force_refresh
\* goes to the fetch, and a successful extraction stores its report in the cache.
C9_CacheContract ==
    [][ /\ \A u \in Urls : cache[u] # NoReport => cache'[u] # NoReport
        /\ (ncalls' = ncalls + 1 /\ ~cur'.force /\ cache[cur'.url] # NoReport) =>
              /\ ret'.kind = "report" /\ ret'.hit
              /\ ret'.report = cache[cur'.url]
              /\ epc' = "idle"
              /\ requests' = requests /\ cache' = cache
        /\ (ncalls' = ncalls + 1 /\ cur'.force) => (epc' = "fetch" /\ attempt' = 0)
        /\ (epc = "fetch" /\ epc' # "fetch") => requests'[cur.url] > cur.req0
        /\ (epc = "fetched" /\ ret'.kind = "report" /\ ret'.report.success) =>
              /\ cache'[cur.url] = ret'.report
              /\ ret'.report.serial > cur.before
              /\ \A u \in Urls \ {cur.url} : cache'[u] = cache[u]
      ]_vars

\* C9 witness: a forced refresh of a cached url succeeded and replaced the entry.
C9_Witness ==
    /\ Returned /\ cur.force /\ cur.before >= 1
    /\ ret.report.success
    /\ cache[cur.url] = ret.report
    /\ cache[cur.url].serial > cur.before

\* C9 witness (second half): a later call without force_refresh was served the
\* refreshed entry from the cache without any request.
C9_WitnessHit ==
    /\ Returned /\ ret.hit /\ ~cur.force
    /\ requests[cur.url] = cur.req0
    /\ ret.report.serial >= 2

\* C27: every report in the cache has success = True, and the cache changes
\* only in the step that ends a call with a successful report: a call that
\* returns success = False, force_refresh on a cached url included, ends with
\* every entry of the cache being the object it was when the call began.
C27_FailureKeepsCache ==
    [][ /\ \A u \in Urls : cache'[u] # NoReport => cache'[u].success
        /\ cache' # cache =>
              (epc = "fetched" /\ ret'.kind = "report" /\ ret'.report.success)
        /\ (epc = "fetched" /\ ~(ret'.kind = "report" /\ ret'.report.success)) =>
              /\ cache' = cache
              /\ cache'[cur.url].serial = cur.before
      ]_vars

\* C27 witness: a forced refresh of a cached url failed after the url had been
\* fetched and stored, and the cache still holds the earlier report.
C27_Witness ==
    /\ Returned /\ cur.force /\ cur.before >= 1
    /\ ret.kind = "report" /\ ~ret.report.success
    /\ cache[cur.url].serial = cur.before
    /\ cache[cur.url].success

\* ------------------------------------------------------- claims on SEARCH
\* C3: whenever search_all_pages returns, the list holds at most max_results
\* items and is a prefix of the items of the fetched pages, in page order.
C3_SearchAllBounded ==
    (spc = "done" /\ sa_out.kind = "return") =>
        /\ Len(sa_out.items) <= max_results
        /\ sa_out.items = SubSeq(Flatten(pages), 1, Len(sa_out.items))

\* C3 witness: two pages were fetched, together holding more than max_results
\* items, and the returned list was cut to max_results.
C3_Witness ==
    /\ spc = "done" /\ sa_out.kind = "return"
    /\ Len(pages) >= 2
    /\ Len(Flatten(pages)) > max_results
    /\ Len(sa_out.items) = max_results

\* Calls of search_incident made so far that sent a page request: the pages
\* parsed, the call in flight, and the call that ended the loop by raising
\* (the ValueError for an empty identifier is raised before any request).
PageRequests ==
    Len(pages)
    + (IF spc \in {"get", "got"} THEN 1 ELSE 0)
    + (IF spc \in {"body", "done"} /\ lastSearch.kind = "raise" /\ lastSearch.replies # <<>>
       THEN 1 ELSE 0)

MaxOf(a, b) == IF a > b THEN a ELSE b

\* C26: for every max_results and every sequence of page responses, paging
\* tokens that repeat or fall back to the first index included,
\* search_all_pages never makes more than max(max_results, 1) page requests
\* and it does return.
C26_SearchAllTerminates ==
    /\ [](PageRequests <= MaxOf(max_results, 1))
    /\ <>(spc = "done")

\* C26 witness: every page came with a token pointing back at index 1, and the
\* call returned after exactly max_results requests of one item each.
C26_Witness ==
    /\ spc = "done" /\ sa_out.kind = "return"
    /\ max_results >= 2
    /\ PageRequests = max_results
    /\ \A k \in 1..Len(pages) : Len(pages[k]) = 1
    /\ lastSearch.next = [t |-> "index", i |-> 1]
    /\ start = 1

\* C4: when search_incident raises a SearchError (APIError included), on the
\* first page or a later one, search_all_pages makes no further request and
\* returns the items collected so far instead of raising.
C4_PartialOnError ==
    IsSearchError(lastSearch) =>
        /\ spc \in {"body", "done"}
        /\ spc = "done" => /\ sa_out.kind = "return"
                           /\ sa_out.items = Flatten(pages)

\* C4 witness: the error came on a later page and the earlier items are returned.
C4_Witness ==
    /\ spc = "done" /\ IsSearchError(lastSearch)
    /\ Len(pages) >= 1
    /\ sa_out.kind = "return" /\ sa_out.items # <<>>

\* C5: with the ceiling of 3 retries, 503 503 503 200 ends in a SearchResponse
\* (the request is still in flight after the third 503), 503 503 503 503 ends
\* in an APIError, and a reply outside the retry list is never followed by
\* another request.
C5_RetryCeiling ==
    /\ replies = <<503, 503, 503>> => spc = "get"
    /\ (lastSearch.replies = <<503, 503, 503, 200>> /\ lastSearch.json = "ok")
          => lastSearch.kind = "ok"
    /\ lastSearch.replies = <<503, 503, 503, 503>>
          => (lastSearch.kind = "raise" /\ lastSearch.exc = "APIError")
    /\ \A i \in 1..(Len(replies) - 1) : is_retry(replies[i])
    /\ Len(replies) <= 4

\* C5 witness: a search that saw 503 503 503 200 and returned a response.
C5_Witness ==
    /\ lastSearch.replies = <<503, 503, 503, 200>>
    /\ lastSearch.kind = "ok"

\* C6 (as claimed): when the HTTP response that ends a search has a non-2xx
\* status, the error reaching the caller is an APIError carrying that status
\* code and body.
C6_ApiErrorCarriesStatus ==
    (/\ lastSearch.replies # <<>>
     /\ Last(lastSearch.replies) # ConnError
     /\ Last(lastSearch.replies) \notin 200..299) =>
        /\ lastSearch.kind = "raise"
        /\ lastSearch.exc = "APIError"
        /\ lastSearch.status = Last(lastSearch.replies)
        /\ lastSearch.body = Last(lastSearch.replies)

====
